---- MODULE Spec2Model ----
(***************************************************************************)
(* The document discovery engine of scripts/scraper.py: the relevance      *)
(* scorer score_candidate, the page store fetch_page with its module-level *)
(* cache, the sitemap reader, the link extractors and the four-phase       *)
(* cascade crawl_for_forms.                                                *)
(*                                                                         *)
(* Strings are sequences of tokens.  A Japanese term is cut at every       *)
(* character that occurs in more than one term of the program's keyword    *)
(* lists, so that `term in text` of the source is "contiguous              *)
(* subsequence" here and every overlap between two terms is kept.  A URL   *)
(* is a sequence whose first token is the host and whose tail is the path, *)
(* cut the same way ("/" is a token).                                      *)
(***************************************************************************)
EXTENDS Integers, Sequences, FiniteSets, TLC

VARIABLES
    site,         \* the web site the sessions crawl (the environment)
    max_pages,    \* argument of crawl_for_forms
    loc,          \* loc[s]: the local variables of session s's crawl_for_forms call
    page_cache,   \* the module-level _page_cache: url -> soup or None
    pdf_info,     \* the candidate passed to score_candidate
    sc_args,      \* [search_terms, form_type] of that call
    sc_score,     \* what the last score_candidate call returned, -1 before it
    sc_prev,      \* the call before a keyword was added to the text
    batch         \* the --discover loop over the registry of municipalities

vars == <<site, max_pages, loc, page_cache,
          pdf_info, sc_args, sc_score, sc_prev, batch>>

Max(a, b) == IF a >= b THEN a ELSE b
Min(a, b) == IF a <= b THEN a ELSE b

\* Python's `t in s` on strings.
IsSub(t, s) ==
    \E i \in 1..(Len(s) - Len(t) + 1) : SubSeq(s, i, i + Len(t) - 1) = t

\* Python's s.startswith(t).
StartsWith(s, t) == Len(t) <= Len(s) /\ SubSeq(s, 1, Len(t)) = t

\* any(t in s for t in terms)
AnyIn(terms, s) == \E i \in 1..Len(terms) : IsSub(terms[i], s)

\* str.lower() on the tokens that carry upper case.
LowerTok(t) ==
    CASE t = "DL" -> "dl"
      [] t = ".PDF" -> ".pdf"
      [] t = "Kurashi" -> "kurashi"
      [] OTHER -> t

Lower(s) == [i \in 1..Len(s) |-> LowerTok(s[i])]

\* urlparse(url).path
UrlPath(url) == IF url = <<>> THEN <<>> ELSE Tail(url)

\* Form names looked for in link text and context (residence form type).
SEARCH_TERMS ==
    << <<"ju", "min", "i", "dou", "todoke">>,           \* 住民異動届
       <<"ten", "nyu", "todoke">>,                      \* 転入届
       <<"ten", "de", "todoke">>,                       \* 転出届
       <<"ten", "kyo", "todoke">>,                      \* 転居届
       <<"ju", "min", "i", "dou", "todoke", "de", "sho">>, \* 住民異動届出書
       <<"hiki", "koshi", "h_shi", "te", "tsuzuki">>,   \* 引越し手続
       <<"hiki", "h_xtsu", "koshi", "h_shi", "te", "tsuzuki">> >> \* 引っ越し手続

\* Anchor-text keywords that mark a link as a likely form sub-page.
SUBPAGE_KEYWORDS ==
    << <<"ju", "min", "i", "dou">>,                     \* 住民異動
       <<"ten", "nyu">>,                                \* 転入
       <<"ten", "de">>,                                 \* 転出
       <<"ten", "kyo">>,                                \* 転居
       <<"hiki", "koshi">>,                             \* 引越
       <<"hiki", "h_xtsu", "koshi">>,                   \* 引っ越
       <<"todoke", "de">>,                              \* 届出
       <<"todoke", "h_ke", "de">>,                      \* 届け出
       <<"k_dau", "k_n", "k_ro", "k_long", "k_do">>,    \* ダウンロード
       <<"shin", "sei", "sho">>,                        \* 申請書
       <<"sama", "shiki">>,                             \* 様式
       <<"te", "tsuzuki", "h_ki">>,                     \* 手続き
       <<"kakushu", "todoke", "de">>,                   \* 各種届出
       <<"ju", "min", "hyo">>,                          \* 住民票
       <<"koseki">>,                                    \* 戸籍
       <<"kura", "h_shi">>,                             \* 暮らし
       <<"shin", "sei">>,                               \* 申請
       <<"todoke", "de", "sho">>,                       \* 届出書
       <<"todoke", "de", "sama", "shiki">>,             \* 届出様式
       <<"todoke", "de", "you", "kami">> >>             \* 届出用紙

\* Context keywords that boost a candidate.
DOWNLOAD_CONTEXT_KEYWORDS ==
    << <<"k_dau", "k_n", "k_ro", "k_long", "k_do">>,    \* ダウンロード
       <<"shin", "sei", "sho">>,                        \* 申請書
       <<"sama", "shiki">>,                             \* 様式
       <<"todoke", "de", "sho">>,                       \* 届出書
       <<"todoke", "h_ke", "de">>,                      \* 届け出
       <<"PDF">>,                                       \* PDF
       <<"sho", "shiki">>,                              \* 書式
       <<"you", "kami">> >>                             \* 用紙

\* Keywords of irrelevant content; each one found costs 20.
NEGATIVE_KEYWORDS ==
    << <<"shou", "bou">>,                               \* 消防
       <<"bou", "sai">>,                                \* 防災
       <<"gomi">>,                                      \* ごみ
       <<"kankyou">>,                                   \* 環境
       <<"dou", "butsu">>,                              \* 動物
       <<"sui", "michi">>,                              \* 水道
       <<"michi", "ro">>,                               \* 道路
       <<"sakura">>,                                    \* 桜
       <<"hanami">>,                                    \* 花見
       <<"k_ibe", "k_n", "k_to">>,                      \* イベント
       <<"kankou">>,                                    \* 観光
       <<"matsuri">>,                                   \* 祭り
       <<"k_supo", "k_long", "k_tsu">>,                 \* スポーツ
       <<"zu", "sho", "kan">>,                          \* 図書館
       <<"kouen">>,                                     \* 公園
       <<"senkyo">>,                                    \* 選挙
       <<"gikai">>,                                     \* 議会
       <<"nyu", "satsu">>,                              \* 入札
       <<"keiyaku">>,                                   \* 契約
       <<"nou", "gyou">>,                               \* 農業
       <<"rin", "gyou">>,                               \* 林業
       <<"gyo", "gyou">>,                               \* 漁業
       <<"shoukou">>,                                   \* 商工
       <<"toshikeikaku">>,                              \* 都市計画
       <<"ininjou">>,                                   \* 委任状
       <<"fuutou">>,                                    \* 封筒
       <<"koseki">>,                                    \* 戸籍
       <<"kaisou">>,                                    \* 改葬
       <<"tochi">>,                                     \* 土地
       <<"sen", "you">>,                                \* 占用
       <<"hai", "sui">>,                                \* 排水
       <<"san", "gyou", "haiki", "butsu">>,             \* 産業廃棄物
       <<"rinjiunkou">>,                                \* 臨時運行
       <<"edaha">> >>                                   \* 枝葉

\* FORM_TYPES["nhi"]["search_terms"].
NHI_SEARCH_TERMS ==
    << <<"koku", "min", "ken1", "kou", "ho", "ken2">>,  \* 国民健康保険
       <<"koku", "ho">>,                                \* 国保
       <<"i", "dou", "todoke", "de", "sho">>,           \* 異動届出書
       <<"shi", "kaku", "shutoku", "todoke">>,          \* 資格取得届
       <<"shi", "kaku", "soushitsu", "todoke">>,        \* 資格喪失届
       <<"hi", "ho", "ken2", "sha">> >>                 \* 被保険者

\* FORM_TYPES["nhi"]["subpage_keywords"].
NHI_SUBPAGE_KEYWORDS ==
    << <<"koku", "min", "ken1", "kou", "ho", "ken2">>,  \* 国民健康保険
       <<"koku", "ho">>,                                \* 国保
       <<"ken1", "kou", "ho", "ken2">>,                 \* 健康保険
       <<"ka", "nyu">>,                                 \* 加入
       <<"shi", "kaku">>,                               \* 資格
       <<"todoke", "de">>,                              \* 届出
       <<"todoke", "h_ke", "de">>,                      \* 届け出
       <<"k_dau", "k_n", "k_ro", "k_long", "k_do">>,    \* ダウンロード
       <<"shin", "sei", "sho">>,                        \* 申請書
       <<"sama", "shiki">> >>                           \* 様式

\* Terms of the other form type penalised when scoring for "residence".
CROSS_RESIDENCE ==
    << <<"koku", "min", "ken1", "kou", "ho", "ken2">>,  \* 国民健康保険
       <<"koku", "ho">>,                                \* 国保
       <<"ken1", "kou", "ho", "ken2", "ryo">> >>        \* 健康保険料

\* Terms of the other form type penalised when scoring for "nhi".
CROSS_NHI ==
    << <<"ju", "min", "i", "dou", "todoke">>,           \* 住民異動届
       <<"ten", "nyu", "todoke">>,                      \* 転入届
       <<"ten", "de", "todoke">>,                       \* 転出届
       <<"ten", "kyo", "todoke">> >>                    \* 転居届

\* Path segments that suggest form-related pages.
FORM_PATH_SEGMENTS ==
    << <<"todokede">>, <<"shinsei", "sho">>, <<"download">>, <<"kurashi">>,
       <<"tetsuzuki">>, <<"hoken">>, <<"kokuho">>, <<"koseki">>, <<"jumin">>,
       <<"hikkoshi">>, <<"tensyutsu">>, <<"tennyu">>, <<"shinsei">>,
       <<"yoshiki">>, <<"dl">>,
       <<"kurashi", "_", "tetsuzuki">>,
       <<"g_info">>,
       <<"madoguchi">>,
       <<"jumin", "hyo">>,
       <<"hikkoshi", "-portal">>,
       <<"shinsei", "sho", "_menu">> >>

\* URL path segments of irrelevant sections.
NEGATIVE_PATH_SEGMENTS ==
    << <<"shobo">>, <<"bousai">>, <<"gomi">>, <<"kankyo">>, <<"doubutsu">>,
       <<"suidou">>, <<"douro">>, <<"sakura">>, <<"kanko">>, <<"matsuri">>,
       <<"sports">>, <<"toshokan">>, <<"koen">>, <<"senkyo">>, <<"gikai">>,
       <<"nyusatsu">>, <<"keiyaku">>, <<"nogyo">>, <<"ringyo">>, <<"shoko">>,
       <<"toshikeikaku">>, <<"fire">>, <<"disaster">>, <<"garbage">>,
       <<"tourism">>, <<"library">>, <<"koseki">>, <<"inkantodoke">>,
       <<"nochi">>, <<"kaiso">>, <<"haiki">>, <<"rinjiunko">> >>

\* FORM_TYPES[form_type]["search_terms"] and ["subpage_keywords"].
FormTypes == {"residence", "nhi"}

search_terms_of(form_type) ==
    IF form_type = "nhi" THEN NHI_SEARCH_TERMS ELSE SEARCH_TERMS

subpage_keywords_of(form_type) ==
    IF form_type = "nhi" THEN NHI_SUBPAGE_KEYWORDS ELSE SUBPAGE_KEYWORDS

\* One `for t in terms: if t in hay: score += weight` loop: the weight is
\* added once for every entry of the list that occurs in hay.
Matching(terms, hay) == {k \in 1..Len(terms) : IsSub(terms[k], hay)}

AddMatches(score, terms, hay, weight) ==
    score + weight * Cardinality(Matching(terms, hay))

\* The sum without the loop over NEGATIVE_KEYWORDS.
score_sum_nonegative(info, search_terms, form_type) ==
    LET combined == info.link_text \o <<" ">> \o info.context
        url_path == Lower(UrlPath(info.url))
        s1 == AddMatches(0, search_terms, combined, 30)
        s2 == AddMatches(s1, FORM_PATH_SEGMENTS, url_path, 5)
    IN  AddMatches(s2, DOWNLOAD_CONTEXT_KEYWORDS, combined, 10)

\* A sum that counts 30 once, however many search terms match.
score_sum_oneterm(info, search_terms, form_type) ==
    LET combined == info.link_text \o <<" ">> \o info.context
        url_path == Lower(UrlPath(info.url))
        s1 == IF Matching(search_terms, combined) # {} THEN 30 ELSE 0
        s2 == AddMatches(s1, FORM_PATH_SEGMENTS, url_path, 5)
        s3 == AddMatches(s2, DOWNLOAD_CONTEXT_KEYWORDS, combined, 10)
        s4 == AddMatches(s3, NEGATIVE_KEYWORDS, combined, -20)
        s5 == AddMatches(s4, NEGATIVE_PATH_SEGMENTS, url_path, -10)
    IN  IF form_type = "residence" THEN AddMatches(s5, CROSS_RESIDENCE, combined, -20)
        ELSE IF form_type = "nhi" THEN AddMatches(s5, CROSS_NHI, combined, -20)
        ELSE s5

\* A sum that takes 10 instead of 20 for a negative keyword.
score_sum_halfpenalty(info, search_terms, form_type) ==
    LET combined == info.link_text \o <<" ">> \o info.context
        url_path == Lower(UrlPath(info.url))
        s1 == AddMatches(0, search_terms, combined, 30)
        s2 == AddMatches(s1, FORM_PATH_SEGMENTS, url_path, 5)
        s3 == AddMatches(s2, DOWNLOAD_CONTEXT_KEYWORDS, combined, 10)
    IN  AddMatches(s3, NEGATIVE_KEYWORDS, combined, -10)

\* The sum score_candidate accumulates before it clamps.
score_sum(info, search_terms, form_type) ==
    LET combined == info.link_text \o <<" ">> \o info.context
        url_path == Lower(UrlPath(info.url))
        s1 == AddMatches(0, search_terms, combined, 30)
        s2 == AddMatches(s1, FORM_PATH_SEGMENTS, url_path, 5)
        s3 == AddMatches(s2, DOWNLOAD_CONTEXT_KEYWORDS, combined, 10)
        s4 == AddMatches(s3, NEGATIVE_KEYWORDS, combined, -20)
        s5 == AddMatches(s4, NEGATIVE_PATH_SEGMENTS, url_path, -10)
        s6 == IF form_type = "residence"
                THEN AddMatches(s5, CROSS_RESIDENCE, combined, -20)
              ELSE IF form_type = "nhi"
                THEN AddMatches(s5, CROSS_NHI, combined, -20)
              ELSE s5
    IN  s6

\* A scorer that remembers how often it was called before.
score_candidate_counting(info, search_terms, form_type) ==
    Max(0, Min(score_sum(info, search_terms, form_type) + 5 * sc_prev.n, 100))

\* A scorer that forgets to clamp.
score_candidate_noclamp(info, search_terms, form_type) ==
    score_sum(info, search_terms, form_type)

score_candidate(info, search_terms, form_type) ==
    Max(0, Min(score_sum(info, search_terms, form_type), 100))

\* any(c["score"] >= threshold for c in candidates), threshold = 50
StrongThreshold == 50

\* A check that never finds a strong candidate.
has_strong_never(candidates) == FALSE

has_strong_candidates(candidates) ==
    \E i \in 1..Len(candidates) : candidates[i].score >= StrongThreshold

\* any(term in combined for term in search_terms)
has_search_term_match(info, search_terms) ==
    AnyIn(search_terms, info.link_text \o <<" ">> \o info.context)

SEED_PATTERNS_RESIDENCE ==
    << <<"/", "kurashi", "/", "todokede", "/">>,            \* /kurashi/todokede/
       <<"/", "kurashi", "/", "koseki", "/", "jumin", "/">>, \* /kurashi/koseki/jumin/
       <<"/", "kurashi", "/", "koseki", "/">>,              \* /kurashi/koseki/
       <<"/", "kurashi", "/", "todokede", "/", "hikkoshi", "/">>, \* /kurashi/todokede/hikkoshi/
       <<"/", "kurashi", "/", "jumin", "/", "hikkoshi", "/">>, \* /kurashi/jumin/hikkoshi/
       <<"/", "kurashi", "/", "jumin", "/">>,               \* /kurashi/jumin/
       <<"/", "kurashi", "/", "jumin", "/", "todokede", "/">>, \* /kurashi/jumin/todokede/
       <<"/", "kurashi", "/", "todokede", "/", "koseki", "/">>, \* /kurashi/todokede/koseki/
       <<"/", "tetsuzuki", "/", "todokede", "/">>,          \* /tetsuzuki/todokede/
       <<"/", "tetsuzuki", "/", "koseki", "/">>,            \* /tetsuzuki/koseki/
       <<"/", "tetsuzuki", "/", "jumin", "/">>,             \* /tetsuzuki/jumin/
       <<"/", "shinsei", "sho", "/">>,                      \* /shinseisho/
       <<"/", "yoshiki", "/">>,                             \* /yoshiki/
       <<"/", "dl", "/", "kurashi", "/">>,                  \* /dl/kurashi/
       <<"/", "dl", "/", "koseki", "/">>,                   \* /dl/koseki/
       <<"/", "download", "/", "kurashi", "/">>,            \* /download/kurashi/
       <<"/", "download", "/", "koseki", "/">>,             \* /download/koseki/
       <<"/", "kurashi", "/", "shinsei", "sho", "/">>,      \* /kurashi/shinseisho/
       <<"/", "smph", "/", "kurashi", "/", "todokede", "/">>, \* /smph/kurashi/todokede/
       <<"/", "life", "/", "todokede", "/">>,               \* /life/todokede/
       <<"/", "life", "/", "koseki", "/">>,                 \* /life/koseki/
       <<"/", "soshiki", "/", "shimin", "/">>,              \* /soshiki/shimin/
       <<"/", "kurashi", "_", "tetsuzuki", "/">>,           \* /kurashi_tetsuzuki/
       <<"/", "hikkoshi", "-portal", "/">>,                 \* /hikkoshi-portal/
       <<"/", "kurashi", "/", "koseki", "/", "002", "/">>,  \* /kurashi/koseki/002/
       <<"/", "kurashi", "/", "koseki", "/", "001", "/">>,  \* /kurashi/koseki/001/
       <<"/", "shinsei", "sho", "_menu", "/">>,             \* /shinseisho_menu/
       <<"/", "shinsei", "sho", "_menu", "/", "koseki", "/">> >> \* /shinseisho_menu/koseki/

SEED_PATTERNS_NHI ==
    << <<"/", "kurashi", "/", "hoken", "/", "kokuho", "/">>, \* /kurashi/hoken/kokuho/
       <<"/", "kurashi", "/", "kokuho", "/">>,              \* /kurashi/kokuho/
       <<"/", "tetsuzuki", "/", "hoken", "/">>,             \* /tetsuzuki/hoken/
       <<"/", "tetsuzuki", "/", "kokuho", "/">>,            \* /tetsuzuki/kokuho/
       <<"/", "kenko", "/", "kokuho", "/">>,                \* /kenko/kokuho/
       <<"/", "hoken", "/", "kokuho", "/">>,                \* /hoken/kokuho/
       <<"/", "shinsei", "sho", "/", "kokuho", "/">>,       \* /shinseisho/kokuho/
       <<"/", "dl", "/", "hoken", "/">>,                    \* /dl/hoken/
       <<"/", "kurashi", "_", "tetsuzuki", "/", "kokuho", "/">> >> \* /kurashi_tetsuzuki/kokuho/

\* generate_seed_urls: domain.rstrip("/") followed by each pattern.
RECURSIVE RStripSlash(_)
RStripSlash(s) ==
    IF s # <<>> /\ s[Len(s)] = "/" THEN RStripSlash(SubSeq(s, 1, Len(s) - 1))
    ELSE s

generate_seed_urls(domain, form_type) ==
    LET patterns == IF form_type = "residence" THEN SEED_PATTERNS_RESIDENCE
                    ELSE IF form_type = "nhi" THEN SEED_PATTERNS_NHI
                    ELSE <<>>
        base == RStripSlash(domain)
    IN  [i \in 1..Len(patterns) |-> base \o patterns[i]]

\* href.lower().endswith(".pdf")
EndsWithPdf(href) == href # <<>> /\ LowerTok(href[Len(href)]) = ".pdf"

\* find_pdf_links: every anchor whose href ends in .pdf, with the anchor's
\* text and its parent's text.
PdfLink(a) == [url |-> a.href, link_text |-> a.text, context |-> a.parent]

RECURSIVE find_pdf_links(_)
find_pdf_links(soup) ==
    IF soup = <<>> THEN <<>>
    ELSE (IF EndsWithPdf(Head(soup).href) THEN <<PdfLink(Head(soup))>> ELSE <<>>)
         \o find_pdf_links(Tail(soup))

DocExtensions == {".pdf", ".xlsx", ".xls", ".doc", ".docx"}
NonHttpSchemes == {"mailto:", "javascript:", "tel:"}

\* Whether find_relevant_subpages keeps anchor a of the page at base_url.
IsRelevantLink(a, base_url, domain, subpage_keywords) ==
    LET full_url == a.href
        base_path == Lower(UrlPath(base_url))
        link_path == Lower(UrlPath(full_url))
        relative_path ==
            IF StartsWith(link_path, base_path)
              THEN SubSeq(link_path, Len(base_path) + 1, Len(link_path))
              ELSE link_path
    IN  /\ IsSub(domain, full_url)
        /\ ~(full_url # <<>> /\ LowerTok(full_url[Len(full_url)]) \in DocExtensions)
        /\ ~(full_url # <<>> /\ full_url[1] \in NonHttpSchemes)
        /\ \/ AnyIn(subpage_keywords, a.text)
           \/ AnyIn(FORM_PATH_SEGMENTS, relative_path)

\* find_relevant_subpages: the relevant same-site links of a page, each URL once.
KeepLink(a, base_url, domain, subpage_keywords, seen) ==
    a.href \notin seen /\ IsRelevantLink(a, base_url, domain, subpage_keywords)

RECURSIVE relevant_from(_, _, _, _, _)
relevant_from(soup, base_url, domain, subpage_keywords, seen) ==
    IF soup = <<>> THEN <<>>
    ELSE (IF KeepLink(Head(soup), base_url, domain, subpage_keywords, seen)
            THEN << [url |-> Head(soup).href, text |-> Head(soup).text] >>
          ELSE <<>>)
         \o relevant_from(Tail(soup), base_url, domain, subpage_keywords,
                          IF KeepLink(Head(soup), base_url, domain, subpage_keywords, seen)
                            THEN seen \cup {Head(soup).href}
                          ELSE seen)

find_relevant_subpages(soup, base_url, domain, subpage_keywords) ==
    relevant_from(soup, base_url, domain, subpage_keywords, {})

(***************************************************************************)
(* The environment: a municipal web site.                                  *)
(***************************************************************************)
Host == "city"

U(path) == <<Host>> \o path

Home      == U(<<"/">>)
FormHtml  == U(<<"/", "kurashi", "/", "todokede", "/", "form", ".html">>)
NewsHtml  == U(<<"/", "news", "/", "index", ".html">>)
InfoHtml  == U(<<"/", "kurashi", "/", "info", ".html">>)
HubA      == U(<<"/", "a", "/">>)
HubB      == U(<<"/", "b", "/">>)
HubC      == U(<<"/", "c", "/">>)
FormPdf   == U(<<"/", "forms", "/", "form", ".pdf">>)
Form2Pdf  == U(<<"/", "forms", "/", "form2", ".pdf">>)
GuidePdf  == U(<<"/", "DL", "/", "guide", ".PDF">>)
External  == <<"other", "/", "kurashi", "/">>

\* Anchor texts.
T_strong == <<"ju", "min", "i", "dou", "todoke", "de", "sho">>   \* 住民異動届出書
T_weak   == <<"ten", "nyu", "todoke">>                          \* 転入届
T_weak2  == <<"ten", "de", "todoke">>                           \* 転出届
T_nhi    == <<"koku", "ho", "i", "dou", "todoke", "de", "sho">>  \* 国保異動届出書
T_neg    == <<"shou", "bou">>                                   \* 消防
T_plain  == <<"annai">>                                         \* 案内
T_nav    == <<"todoke", "de">>                                  \* 届出
T_nav2   == <<"todoke", "de", "sho", "k_dau", "k_n", "k_ro", "k_long", "k_do">> \* 届出書ダウンロード
T_dl     == <<"shin", "sei", "sho", "sama", "shiki",
              "k_dau", "k_n", "k_ro", "k_long", "k_do">>        \* 申請書様式ダウンロード

Anchor(href, text) == [href |-> href, text |-> text, parent |-> text]

\* A generated section of the site: below each root every page links to
\* `branch` child pages (child k at <page>nk/), without end.  Pages at depth
\* pdf_at link the form with text pdf_text; with leaf_pdf every page also
\* links a document of its own, and the root a guide.
ChildTok == <<"n1", "n2", "n3", "n4", "n5", "n6">>

NoTree == [roots |-> {}, branch |-> 0, pdf_at |-> {}, pdf_text |-> <<>>,
           leaf_pdf |-> FALSE]

RECURSIVE IsChildPath(_, _)
IsChildPath(rest, branch) ==
    \/ rest = <<>>
    \/ /\ Len(rest) >= 2
       /\ \E k \in 1..branch : rest[1] = ChildTok[k]
       /\ rest[2] = "/"
       /\ IsChildPath(SubSeq(rest, 3, Len(rest)), branch)

TreeRootOf(tree, u) ==
    {r \in tree.roots :
        StartsWith(u, r) /\ IsChildPath(SubSeq(u, Len(r) + 1, Len(u)), tree.branch)}

TreePage(tree, u) ==
    LET r == CHOOSE x \in TreeRootOf(tree, u) : TRUE
        depth == (Len(u) - Len(r)) \div 2
    IN  [k \in 1..tree.branch |->
            Anchor(u \o <<ChildTok[k], "/">>, IF k = 2 THEN T_nav2 ELSE T_nav)]
        \o (IF depth \in tree.pdf_at THEN <<Anchor(FormPdf, tree.pdf_text)>> ELSE <<>>)
        \o (IF tree.leaf_pdf THEN <<Anchor(u \o <<"leaf", ".pdf">>, T_weak)>> ELSE <<>>)
        \o (IF tree.leaf_pdf /\ depth = 0 THEN <<Anchor(GuidePdf, T_dl)>> ELSE <<>>)

NoneLoc == <<"None">>       \* the text of an empty <loc/> element

SeedKoseki == U(<<"/", "kurashi", "/", "koseki", "/">>)    \* a "residence" seed
SeedKokuho == U(<<"/", "kurashi", "/", "kokuho", "/">>)    \* an "nhi" seed

Urlset(locs) == [kind |-> "urlset", locs |-> locs, subs |-> <<>>]
NoSitemap    == [kind |-> "fail", locs |-> <<>>, subs |-> <<>>]
SubOk(locs)  == [ok |-> TRUE, locs |-> locs]
SubFail      == [ok |-> FALSE, locs |-> <<>>]
NoGoogle     == [ok |-> FALSE, urls |-> <<>>]

HomePage(links) == (<<Host>> :> links) @@ (Home :> links)

\* The sitemap lists the form page, whose one document link is `text`.
SitemapSite(name, text) ==
    [name |-> name, domain |-> <<Host>>,
     sitemap |-> Urlset(<<FormHtml, NewsHtml>>),
     pages |-> HomePage(<<Anchor(FormHtml, T_nav), Anchor(NewsHtml, T_plain)>>)
               @@ (FormHtml :> <<Anchor(FormPdf, text)>>)
               @@ (NewsHtml :> <<Anchor(GuidePdf, T_plain)>>),
     tree |-> NoTree, google |-> NoGoogle, flaky |-> {FormHtml}]

\* A sitemap with an empty <loc/> element.
BadLocSite ==
    [SitemapSite("badloc", T_strong) EXCEPT !.sitemap = Urlset(<<FormHtml, NoneLoc>>)]

\* The sitemap lists two form pages; the first links the form.
TwoFormSite ==
    [SitemapSite("two_forms", T_strong) EXCEPT
        !.sitemap = Urlset(<<FormHtml, InfoHtml>>),
        !.pages = @ @@ (InfoHtml :> <<Anchor(Form2Pdf, T_weak2)>>)]

\* A sitemap index with one child that cannot be fetched.
IndexSite ==
    [name |-> "index", domain |-> <<Host, "/">>,
     sitemap |-> [kind |-> "index", locs |-> <<>>,
                  subs |-> <<SubOk(<<FormHtml>>), SubFail,
                             SubOk(<<InfoHtml, NewsHtml>>)>>],
     pages |-> HomePage(<<Anchor(InfoHtml, T_nav)>>)
               @@ (FormHtml :> <<Anchor(FormPdf, T_weak)>>)
               @@ (InfoHtml :> <<Anchor(FormPdf, T_strong), Anchor(Form2Pdf, T_weak2)>>)
               @@ (NewsHtml :> <<>>),
     tree |-> NoTree, google |-> NoGoogle, flaky |-> {}]

\* No sitemap; the seed pages respond and lead into a generated section.
SeedSite(name, branch, pdf_at, leaf_pdf) ==
    [name |-> name, domain |-> <<Host>>, sitemap |-> NoSitemap,
     pages |-> HomePage(<<Anchor(SeedKoseki, T_nav), Anchor(External, T_nav)>>),
     tree |-> [roots |-> {SeedKoseki, SeedKokuho}, branch |-> branch,
               pdf_at |-> pdf_at, pdf_text |-> T_strong, leaf_pdf |-> leaf_pdf],
     google |-> NoGoogle, flaky |-> {}]

\* Only the search finds pages: two results, the first with six sub-links.
GoogleSite ==
    [name |-> "google", domain |-> <<Host>>, sitemap |-> NoSitemap,
     pages |-> HomePage(<<Anchor(HubB, T_nav)>>)
               @@ (HubB :> <<Anchor(HubA, T_nav), Anchor(Form2Pdf, T_weak2)>>),
     tree |-> [roots |-> {HubA}, branch |-> 6, pdf_at |-> {},
               pdf_text |-> <<>>, leaf_pdf |-> TRUE],
     google |-> [ok |-> TRUE, urls |-> <<HubA, HubB>>], flaky |-> {HubB}]

\* The search answers with an error status; its body names two pages.
BlockedSite ==
    [GoogleSite EXCEPT !.name = "google_blocked",
                       !.google = [ok |-> FALSE, urls |-> <<HubA, HubB>>]]

\* Ten result links to pages the server no longer has.
GoneResults ==
    [k \in 1..6 |-> U(<<"/", "gone", "/", ChildTok[k], "/">>)]
    \o [k \in 1..4 |-> U(<<"/", "old", "/", ChildTok[k], "/">>)]

\* The first of twelve search results is the domain root itself.
RootResultSite ==
    [GoogleSite EXCEPT !.name = "google_root",
                       !.google = [ok |-> TRUE,
                                   urls |-> <<<<Host>>>> \o GoneResults \o <<HubB>>]]

\* Nothing but the home page leads anywhere: the best-first crawl decides.
RootSite(name, branch, pdf_at, leaf_pdf) ==
    [name |-> name, domain |-> <<Host>>, sitemap |-> NoSitemap, pages |-> <<>>,
     tree |-> [roots |-> {Home}, branch |-> branch, pdf_at |-> pdf_at,
               pdf_text |-> T_strong, leaf_pdf |-> leaf_pdf],
     google |-> NoGoogle, flaky |-> {}]

\* The same document linked from several pages with different texts.
DedupSite ==
    [name |-> "dedup", domain |-> <<Host>>, sitemap |-> NoSitemap,
     pages |-> HomePage(<<Anchor(HubC, T_nav), Anchor(HubA, T_nav), Anchor(HubB, T_nav),
                          Anchor(GuidePdf, T_plain)>>)
               @@ (HubA :> <<Anchor(FormPdf, T_neg), Anchor(Form2Pdf, T_weak2)>>)
               @@ (HubB :> <<Anchor(FormPdf, T_weak), Anchor(FormPdf, T_strong),
                             Anchor(GuidePdf, T_weak)>>)
               @@ (HubC :> <<Anchor(FormPdf, T_strong), Anchor(Form2Pdf, T_nhi)>>),
     tree |-> NoTree, google |-> NoGoogle, flaky |-> {HubA}]

\* Pages that link to themselves, to each other and back to the home page;
\* one residence seed responds and leads into the same cycle.
CycleSite ==
    [name |-> "cycle", domain |-> <<Host>>, sitemap |-> NoSitemap,
     pages |-> HomePage(<<Anchor(HubA, T_nav), Anchor(HubB, T_nav), Anchor(HubC, T_nav),
                          Anchor(Home, T_nav)>>)
               @@ (SeedKoseki :> <<Anchor(SeedKoseki, T_nav), Anchor(HubA, T_nav)>>)
               @@ (HubC :> <<Anchor(HubC, T_nav), Anchor(HubA, T_nav)>>)
               @@ (HubA :> <<Anchor(HubA, T_nav), Anchor(Home, T_nav), Anchor(HubB, T_nav),
                             Anchor(HubC, T_nav), Anchor(Form2Pdf, T_weak2)>>)
               @@ (HubB :> <<Anchor(HubA, T_nav), Anchor(HubB, T_nav), Anchor(Home, T_nav)>>),
     tree |-> NoTree, google |-> NoGoogle, flaky |-> {HubB}]

Sites ==
    { SitemapSite("strong", T_strong), SitemapSite("weak", T_weak), BadLocSite,
      IndexSite, SeedSite("seed_chain", 1, {4}, FALSE), SeedSite("seed_deep", 1, {5}, FALSE),
      SeedSite("seed_fan", 3, {}, TRUE), GoogleSite,
      RootSite("root_chain", 1, {5}, FALSE), RootSite("root_fan", 2, {}, TRUE),
      RootSite("root_mid", 2, {1}, FALSE), DedupSite, TwoFormSite, BlockedSite,
      RootResultSite, CycleSite }

\* Whether the server has a page at url (otherwise it answers 404).
Exists(s, url) ==
    \/ url \in DOMAIN s.pages
    \/ TreeRootOf(s.tree, IF url = <<Host>> THEN Home ELSE url) # {}

\* The anchors of the page the server answers for url.
Page(s, url) ==
    IF url \in DOMAIN s.pages THEN s.pages[url]
    ELSE TreePage(s.tree, IF url = <<Host>> THEN Home ELSE url)

\* The outcomes a request for url can have: TRUE a page, FALSE an error.
NetOutcomes(s, url) ==
    IF ~Exists(s, url) THEN {FALSE}
    ELSE IF url \in s.flaky THEN {TRUE, FALSE}
    ELSE {TRUE}

(***************************************************************************)
(* The page store and the sitemap reader.                                  *)
(***************************************************************************)
NoneSoup == [ok |-> FALSE, anchors |-> <<>>]     \* fetch_page's None
Soup(anchors) == [ok |-> TRUE, anchors |-> anchors]

\* A page store that never answers from its cache.
fetch_page_nocache(cache, url, netok) ==
    LET soup == IF netok THEN Soup(Page(site, url)) ELSE NoneSoup
    IN  [soup |-> soup, cache |-> (url :> soup) @@ cache, hit |-> FALSE]

\* fetch_page(url) on the cache `cache`, when the network answers netok:
\* the value returned, the cache afterwards, and whether the cache answered.
fetch_page(cache, url, netok) ==
    IF url \in DOMAIN cache
      THEN [soup |-> cache[url], cache |-> cache, hit |-> TRUE]
    ELSE LET soup == IF netok THEN Soup(Page(site, url)) ELSE NoneSoup
         IN  [soup |-> soup, cache |-> (url :> soup) @@ cache, hit |-> FALSE]

RECURSIVE ConcatLocs(_)
ConcatLocs(subs) ==
    IF subs = <<>> THEN <<>>
    ELSE (IF Head(subs).ok THEN Head(subs).locs ELSE <<>>) \o ConcatLocs(Tail(subs))

MaxChildSitemaps == 5

\* The <loc> texts parse_sitemap gathers before it filters them.
SitemapLocs(sm) ==
    IF sm.kind = "fail" THEN <<>>
    ELSE IF sm.subs # <<>>
      THEN ConcatLocs(SubSeq(sm.subs, 1, Min(MaxChildSitemaps, Len(sm.subs))))
    ELSE sm.locs

IsFormPath(url) == AnyIn(FORM_PATH_SEGMENTS, Lower(UrlPath(url)))

\* parse_sitemap: the filter loop runs outside the try block, and
\* `url.decode()` on the None of an empty <loc/> raises AttributeError.
parse_sitemap(sm) ==
    LET urls == SitemapLocs(sm)
    IN  IF \E i \in 1..Len(urls) : urls[i] = NoneLoc
          THEN [raised |-> TRUE, urls |-> <<>>]
        ELSE [raised |-> FALSE, urls |-> SelectSeq(urls, IsFormPath)]

MaxResults == 10      \* max_results of google_site_search

\* A search that reads the links of an error response.
google_site_search_anyway(g) == g.urls

\* google_site_search: unique[:max_results], or [] on any failure.  The site's
\* list holds each result link once.
google_site_search(g) ==
    IF g.ok THEN SubSeq(g.urls, 1, Min(MaxResults, Len(g.urls))) ELSE <<>>

(***************************************************************************)
(* Collecting candidates.                                                  *)
(***************************************************************************)
Candidate(pdf, score, found_on) ==
    [url |-> pdf.url, link_text |-> pdf.link_text, context |-> pdf.context,
     score |-> score, found_on |-> found_on]

\* A collector that remembers a link whatever its score.
collect_one_seenzero(acc, pdf, url, search_terms, form_type) ==
    IF pdf.url \in acc.seen_pdfs THEN acc
    ELSE [candidates |->
              IF score_candidate(pdf, search_terms, form_type) > 0
                THEN Append(acc.candidates,
                            Candidate(pdf, score_candidate(pdf, search_terms, form_type), url))
              ELSE acc.candidates,
          seen_pdfs |-> acc.seen_pdfs \cup {pdf.url}]

\* A collector that keeps a link whatever its score.
collect_one_keepzero(acc, pdf, url, search_terms, form_type) ==
    IF pdf.url \in acc.seen_pdfs THEN acc
    ELSE [candidates |-> Append(acc.candidates,
                                Candidate(pdf, score_candidate(pdf, search_terms, form_type), url)),
          seen_pdfs |-> acc.seen_pdfs \cup {pdf.url}]

\* A collector that never consults seen_pdfs.
collect_one_nodedup(acc, pdf, url, search_terms, form_type) ==
    IF score_candidate(pdf, search_terms, form_type) > 0
      THEN [candidates |-> Append(acc.candidates,
                                  Candidate(pdf, score_candidate(pdf, search_terms, form_type), url)),
            seen_pdfs |-> acc.seen_pdfs \cup {pdf.url}]
    ELSE acc

\* One iteration of the loop of _collect_pdfs_from_page, on the pair
\* acc = [candidates, seen_pdfs].
collect_one(acc, pdf, url, search_terms, form_type) ==
    IF pdf.url \in acc.seen_pdfs THEN acc
    ELSE IF score_candidate(pdf, search_terms, form_type) > 0
      THEN [candidates |-> Append(acc.candidates,
                                  Candidate(pdf, score_candidate(pdf, search_terms, form_type), url)),
            seen_pdfs |-> acc.seen_pdfs \cup {pdf.url}]
    ELSE acc

RECURSIVE collect_from(_, _, _, _, _)
collect_from(pdfs, url, search_terms, acc, form_type) ==
    IF pdfs = <<>> THEN acc
    ELSE collect_from(Tail(pdfs), url, search_terms,
                      collect_one(acc, Head(pdfs), url, search_terms, form_type),
                      form_type)

collect_pdfs_from_page(url, soup, search_terms, candidates, seen_pdfs, form_type) ==
    collect_from(find_pdf_links(soup.anchors), url, search_terms,
                 [candidates |-> candidates, seen_pdfs |-> seen_pdfs], form_type)

\* A descending sort that puts a candidate before the earlier ones of its score.
RECURSIVE InsertBeforeEqual(_, _)
InsertBeforeEqual(sorted, c) ==
    IF sorted = <<>> THEN <<c>>
    ELSE IF Head(sorted).score > c.score
      THEN <<Head(sorted)>> \o InsertBeforeEqual(Tail(sorted), c)
    ELSE <<c>> \o sorted

RECURSIVE sort_unstable(_)
sort_unstable(candidates) ==
    IF candidates = <<>> THEN <<>>
    ELSE InsertBeforeEqual(sort_unstable(SubSeq(candidates, 1, Len(candidates) - 1)),
                           candidates[Len(candidates)])

\* candidates.sort(key=score, reverse=True): a stable sort, so candidates of
\* equal score keep their order.
RECURSIVE InsertByScore(_, _)
InsertByScore(sorted, c) ==
    IF sorted = <<>> THEN <<c>>
    ELSE IF Head(sorted).score >= c.score
      THEN <<Head(sorted)>> \o InsertByScore(Tail(sorted), c)
    ELSE <<c>> \o sorted

RECURSIVE sort_by_score(_)
sort_by_score(candidates) ==
    IF candidates = <<>> THEN <<>>
    ELSE InsertByScore(sort_by_score(SubSeq(candidates, 1, Len(candidates) - 1)),
                       candidates[Len(candidates)])

(***************************************************************************)
(* The heap of phase 4: entries (neg_pri, depth, url) compared as tuples.  *)
(***************************************************************************)
\* The URL tokens in code-point order (no token of a page URL is a proper
\* prefix of another that can stand at the same place).
UrlTokenOrder ==
    << "-portal", ".PDF", ".html", ".pdf", "/", "001", "002", "DL", "_",
       "_menu", "a", "b", "c", "city", "dl", "download", "form", "form2",
       "forms", "guide", "hikkoshi", "hoken", "hyo", "index", "info",
       "jumin", "kenko", "kokuho", "koseki", "kurashi", "leaf", "life",
       "n1", "n2", "n3", "n4", "n5", "n6", "news", "other", "shimin",
       "shinsei", "sho", "smph", "soshiki", "tetsuzuki", "todokede",
       "yoshiki" >>

TokRank(t) == CHOOSE i \in 1..Len(UrlTokenOrder) : UrlTokenOrder[i] = t

RECURSIVE UrlLess(_, _)
UrlLess(a, b) ==
    IF b = <<>> THEN FALSE
    ELSE IF a = <<>> THEN TRUE
    ELSE IF a[1] = b[1] THEN UrlLess(Tail(a), Tail(b))
    ELSE TokRank(a[1]) < TokRank(b[1])

EntryLess(e1, e2) ==
    \/ e1.neg_pri < e2.neg_pri
    \/ e1.neg_pri = e2.neg_pri /\ e1.depth < e2.depth
    \/ e1.neg_pri = e2.neg_pri /\ e1.depth = e2.depth /\ UrlLess(e1.url, e2.url)

\* A queue that hands out the oldest entry.
HeapMin_first(pq) == 1

\* The index of the entry heapq.heappop returns: a least one.
HeapMin(pq) ==
    CHOOSE i \in 1..Len(pq) :
        /\ \A j \in 1..Len(pq) : ~EntryLess(pq[j], pq[i])
        /\ \A j \in 1..(i - 1) : pq[j] # pq[i]

RemoveAt(q, i) == SubSeq(q, 1, i - 1) \o SubSeq(q, i + 1, Len(q))

\* The relevance phase 4 computes for a sub-page link.
link_pri(sp, subpage_kw) ==
    LET sp_path == Lower(UrlPath(sp.url))
        p1 == AddMatches(0, subpage_kw, sp.text, 10)
        p2 == AddMatches(p1, FORM_PATH_SEGMENTS, sp_path, 5)
        p3 == AddMatches(p2, NEGATIVE_KEYWORDS, sp.text, -20)
    IN  AddMatches(p3, NEGATIVE_PATH_SEGMENTS, sp_path, -10)

(***************************************************************************)
(* crawl_for_forms, one action per loop iteration.  Five fields of loc[s]   *)
(* only observe: invoked lists the phases session s has entered, ended the *)
(* best score at the end of each phase, fetched its fetch_page calls,      *)
(* discovered every document link met on a fetched page, scored, and again *)
(* the last repeated fetch_page call.  The fields from download_candidates *)
(* on belong to discover_and_scrape, the caller; last_pop observes the     *)
(* last heappop: the queue before it, in the order of the pushes, and the  *)
(* place k of the entry it returned; slept adds up the time.sleep calls    *)
(* since the last fetch_page call, in milliseconds; seed_pop observes the  *)
(* last popleft of the seed crawl as last_pop does the last heappop.       *)
(***************************************************************************)
Sessions == {1, 2}

SeedDepth  == 4      \* depth limit of the per-seed crawl
SeedBudget == 30     \* page budget of the per-seed crawl
SubLinks   == 5      \* sub-links followed per search result
BfsDepth   == 5      \* depth limit of the best-first crawl

NoFetch == [url |-> <<>>, hit |-> FALSE, ok |-> FALSE]

Idle(form_type) ==
    [pc |-> "idle", form_type |-> form_type, candidates |-> <<>>,
     seen_urls |-> {}, seen_pdfs |-> {}, sitemap_urls |-> <<>>, i |-> 0,
     seed_urls |-> <<>>, responding_seeds |-> <<>>, seed_i |-> 0,
     seed_queue |-> <<>>, seed_pages |-> 0, google_urls |-> <<>>,
     subpages |-> <<>>, sub_i |-> 0, pq |-> <<>>, bfs_visited |-> 0,
     invoked |-> <<>>, ended |-> <<>>, fetched |-> <<>>, discovered |-> <<>>,
     again |-> NoFetch,
     download_candidates |-> <<>>, dl_i |-> 0, files |-> {}, attempts |-> <<>>,
     flagged |-> <<>>, last_pop |-> [k |-> 0, pq |-> <<>>], slept |-> 0,
     seed_pop |-> [k |-> 0, q |-> <<>>]]

\* The document links of a fetched page, each with the score it gets there.
Discoveries(url, soup, search_terms, form_type) ==
    LET pdfs == find_pdf_links(soup.anchors)
    IN  [k \in 1..Len(pdfs) |->
            [url |-> pdfs[k].url,
             score |-> score_candidate(pdfs[k], search_terms, form_type),
             found_on |-> url]]

\* max(c["score"] for c in candidates), 0 for none
BestScore(candidates) ==
    IF candidates = <<>> THEN 0
    ELSE CHOOSE m \in {candidates[k].score : k \in 1..Len(candidates)} :
            \A k \in 1..Len(candidates) : candidates[k].score <= m

PhaseEnd(l, phase) ==
    Append(l.ended, [phase |-> phase, best |-> BestScore(l.candidates)])

SleepSitemap == 1000    \* time.sleep(1) after a sitemap page
SleepSeed    == 500     \* time.sleep(0.5) after a seed page
SleepGoogle  == 2000    \* time.sleep(2) before the search query
SleepSub     == 500     \* time.sleep(0.5) after a sub-link of a search result
SleepResult  == 1000    \* time.sleep(1) after the sub-links of a search result
SleepBfs     == 1000    \* time.sleep(1) after a page of the best-first crawl

\* A sleep that returns at once.
sleep_none(l, ms) == l

\* time.sleep(ms / 1000)
sleep(l, ms) == [l EXCEPT !.slept = @ + ms]

\* A visit that marks the URL as seen only when the page could be read.
Visit_forgetfailed(l, cache, url, netok, phase, depth) ==
    LET f == fetch_page(cache, url, netok)
        c == IF f.soup.ok
               THEN collect_pdfs_from_page(url, f.soup, search_terms_of(l.form_type),
                                           l.candidates, l.seen_pdfs, l.form_type)
             ELSE [candidates |-> l.candidates, seen_pdfs |-> l.seen_pdfs]
    IN  [l |-> [l EXCEPT !.seen_urls = IF f.soup.ok THEN @ \cup {url} ELSE @,
                         !.candidates = c.candidates,
                         !.seen_pdfs = c.seen_pdfs,
                         !.fetched = Append(@, [url |-> url, phase |-> phase,
                                                depth |-> depth, hit |-> f.hit,
                                                ok |-> f.soup.ok,
                                                best |-> BestScore(l.candidates),
                                                slept |-> l.slept]),
                         !.slept = 0,
                         !.discovered =
                             IF f.soup.ok
                               THEN @ \o Discoveries(url, f.soup,
                                                     search_terms_of(l.form_type),
                                                     l.form_type)
                             ELSE @],
         cache |-> f.cache, soup |-> f.soup]

\* seen_urls.add(url); soup = fetch_page(url); if soup: collect its PDFs.
Visit(l, cache, url, netok, phase, depth) ==
    LET f == fetch_page(cache, url, netok)
        c == IF f.soup.ok
               THEN collect_pdfs_from_page(url, f.soup, search_terms_of(l.form_type),
                                           l.candidates, l.seen_pdfs, l.form_type)
             ELSE [candidates |-> l.candidates, seen_pdfs |-> l.seen_pdfs]
    IN  [l |-> [l EXCEPT !.seen_urls = @ \cup {url},
                         !.candidates = c.candidates,
                         !.seen_pdfs = c.seen_pdfs,
                         !.fetched = Append(@, [url |-> url, phase |-> phase,
                                                depth |-> depth, hit |-> f.hit,
                                                ok |-> f.soup.ok,
                                                best |-> BestScore(l.candidates),
                                                slept |-> l.slept]),
                         !.slept = 0,
                         !.discovered =
                             IF f.soup.ok
                               THEN @ \o Discoveries(url, f.soup,
                                                     search_terms_of(l.form_type),
                                                     l.form_type)
                             ELSE @],
         cache |-> f.cache, soup |-> f.soup]

Outcomes(url) == IF url \in DOMAIN page_cache THEN {TRUE} ELSE NetOutcomes(site, url)

Env == <<site, max_pages, pdf_info, sc_args, sc_score, sc_prev, batch>>

\* Entry: fresh locals, _page_cache.clear(), then phase 1 reads the sitemap.
Start(s) ==
    /\ loc[s].pc = "idle"
    /\ page_cache' = <<>>
    /\ LET sm == parse_sitemap(site.sitemap)
           l0 == [Idle(loc[s].form_type) EXCEPT !.invoked = <<1>>]
       IN  loc' = [loc EXCEPT ![s] =
                     IF sm.raised THEN [l0 EXCEPT !.pc = "raised"]
                     ELSE [l0 EXCEPT !.pc = "p1", !.sitemap_urls = sm.urls, !.i = 1]]
    /\ UNCHANGED Env

\* for url in sitemap_urls[:max_pages]
P1Step(s) ==
    LET l == loc[s] IN
    /\ l.pc = "p1"
    /\ l.i <= Min(Len(l.sitemap_urls), max_pages)
    /\ LET url == l.sitemap_urls[l.i] IN
       IF url \in l.seen_urls
         THEN /\ loc' = [loc EXCEPT ![s].i = @ + 1]
              /\ UNCHANGED page_cache
       ELSE \E netok \in Outcomes(url) :
              LET v == Visit(l, page_cache, url, netok, 1, 0)
                  w == IF v.soup.ok THEN sleep(v.l, SleepSitemap) ELSE v.l
              IN
              /\ loc' = [loc EXCEPT ![s] = [w EXCEPT !.i = @ + 1]]
              /\ page_cache' = v.cache
    /\ UNCHANGED Env

P1End(s) ==
    LET l == loc[s] IN
    /\ l.pc = "p1"
    /\ l.i > Min(Len(l.sitemap_urls), max_pages)
    /\ loc' = [loc EXCEPT ![s] = [l EXCEPT !.pc = "g2", !.ended = PhaseEnd(l, 1)]]
    /\ UNCHANGED <<page_cache, Env>>

\* if not _has_strong_candidates(candidates): phase 2
Guard2(s) ==
    LET l == loc[s] IN
    /\ l.pc = "g2"
    /\ loc' = [loc EXCEPT ![s] =
                 IF ~has_strong_candidates(l.candidates)
                   THEN [l EXCEPT !.pc = "p2probe",
                                  !.seed_urls = generate_seed_urls(site.domain, l.form_type),
                                  !.responding_seeds = <<>>,
                                  !.i = 1,
                                  !.invoked = Append(@, 2)]
                 ELSE [l EXCEPT !.pc = "g3"]]
    /\ UNCHANGED <<page_cache, Env>>

\* for url in seed_urls
P2Probe(s) ==
    LET l == loc[s] IN
    /\ l.pc = "p2probe"
    /\ l.i <= Len(l.seed_urls)
    /\ LET url == l.seed_urls[l.i] IN
       IF url \in l.seen_urls
         THEN /\ loc' = [loc EXCEPT ![s].i = @ + 1]
              /\ UNCHANGED page_cache
       ELSE \E netok \in Outcomes(url) :
              LET v == Visit(l, page_cache, url, netok, 2, 0)
                  w == IF v.soup.ok THEN sleep(v.l, SleepSeed) ELSE v.l
              IN
              /\ loc' = [loc EXCEPT ![s] =
                           [w EXCEPT !.i = @ + 1,
                                       !.responding_seeds =
                                           IF v.soup.ok
                                             THEN Append(@, [url |-> url, soup |-> v.soup])
                                           ELSE @]]
              /\ page_cache' = v.cache
    /\ UNCHANGED Env

\* if responding_seeds: ... else: "0 seed pages responded"
P2ProbeEnd(s) ==
    LET l == loc[s] IN
    /\ l.pc = "p2probe"
    /\ l.i > Len(l.seed_urls)
    /\ loc' = [loc EXCEPT ![s] =
                 IF l.responding_seeds # <<>>
                   THEN [l EXCEPT !.pc = "p2seed", !.seed_i = 1]
                 ELSE [l EXCEPT !.pc = "g3", !.ended = PhaseEnd(l, 2)]]
    /\ UNCHANGED <<page_cache, Env>>

\* A queue that is never filled.
UnseenAt_none(subpages, seen_urls, depth) == <<>>

\* The unseen sub-page links of a page, as queue entries at `depth`.
UnseenAt(subpages, seen_urls, depth) ==
    LET unseen == SelectSeq(subpages, LAMBDA sp : sp.url \notin seen_urls)
    IN  [k \in 1..Len(unseen) |-> [url |-> unseen[k].url, depth |-> depth]]

\* for seed_url, seed_soup in responding_seeds: fill seed_queue
P2SeedStart(s) ==
    LET l == loc[s]
        seed == l.responding_seeds[l.seed_i]
        sub == find_relevant_subpages(seed.soup.anchors, seed.url, site.domain,
                                      subpage_keywords_of(l.form_type))
    IN
    /\ l.pc = "p2seed"
    /\ loc' = [loc EXCEPT ![s] =
                 [l EXCEPT !.pc = "p2crawl",
                           !.seed_queue = UnseenAt(sub, l.seen_urls, 1),
                           !.seed_pages = 0]]
    /\ UNCHANGED <<page_cache, Env>>

\* A queue that hands out the newest entry.
popleft_newest(q) == Len(q)

\* The index of the entry seed_queue.popleft() returns.
popleft(q) == 1

\* while seed_queue and seed_pages < 30: one iteration
P2CrawlStep(s) ==
    LET l == loc[s] IN
    /\ l.pc = "p2crawl"
    /\ l.seed_queue # <<>>
    /\ l.seed_pages < SeedBudget
    /\ LET k == popleft(l.seed_queue)
           e == l.seed_queue[k]
           popped == [l EXCEPT !.seed_queue = RemoveAt(@, k),
                               !.seed_pop = [k |-> k, q |-> l.seed_queue]]
       IN
       IF e.url \in l.seen_urls \/ e.depth > SeedDepth
         THEN /\ loc' = [loc EXCEPT ![s] = popped]
              /\ UNCHANGED page_cache
       ELSE \E netok \in Outcomes(e.url) :
              LET v == Visit([popped EXCEPT !.seed_pages = @ + 1], page_cache,
                             e.url, netok, 2, e.depth)
                  sub == find_relevant_subpages(v.soup.anchors, e.url, site.domain,
                                                subpage_keywords_of(l.form_type))
                  w == IF v.soup.ok THEN sleep(v.l, SleepSeed) ELSE v.l
              IN
              /\ loc' = [loc EXCEPT ![s] =
                           IF v.soup.ok /\ e.depth < SeedDepth
                             THEN [w EXCEPT !.seed_queue =
                                      @ \o UnseenAt(sub, v.l.seen_urls, e.depth + 1)]
                           ELSE w]
              /\ page_cache' = v.cache
    /\ UNCHANGED Env

\* The per-seed loop is over: break if a strong candidate exists, else next seed.
P2CrawlEnd(s) ==
    LET l == loc[s] IN
    /\ l.pc = "p2crawl"
    /\ (l.seed_queue = <<>> \/ l.seed_pages >= SeedBudget)
    /\ loc' = [loc EXCEPT ![s] =
                 IF has_strong_candidates(l.candidates)
                    \/ l.seed_i >= Len(l.responding_seeds)
                   THEN [l EXCEPT !.pc = "g3", !.ended = PhaseEnd(l, 2)]
                 ELSE [l EXCEPT !.pc = "p2seed", !.seed_i = @ + 1]]
    /\ UNCHANGED <<page_cache, Env>>

\* if not _has_strong_candidates(candidates): phase 3
Guard3(s) ==
    LET l == loc[s] IN
    /\ l.pc = "g3"
    /\ loc' = [loc EXCEPT ![s] =
                 IF ~has_strong_candidates(l.candidates)
                   THEN [sleep(l, SleepGoogle) EXCEPT !.pc = "p3",
                                  !.google_urls = google_site_search(site.google),
                                  !.i = 1,
                                  !.invoked = Append(@, 3)]
                 ELSE [l EXCEPT !.pc = "g4"]]
    /\ UNCHANGED <<page_cache, Env>>

\* A slice that keeps every sub-link.
first_subpages_all(sub) == sub

\* subpages[:5]
first_subpages(sub) == SubSeq(sub, 1, Min(SubLinks, Len(sub)))

\* for url in google_urls: fetch the result page, list its sub-links
P3Step(s) ==
    LET l == loc[s] IN
    /\ l.pc = "p3"
    /\ l.i <= Len(l.google_urls)
    /\ LET url == l.google_urls[l.i] IN
       IF url \in l.seen_urls
         THEN /\ loc' = [loc EXCEPT ![s].i = @ + 1]
              /\ UNCHANGED page_cache
       ELSE \E netok \in Outcomes(url) :
              LET v == Visit(l, page_cache, url, netok, 3, 0)
                  sub == find_relevant_subpages(v.soup.anchors, url, site.domain,
                                                subpage_keywords_of(l.form_type))
              IN
              /\ loc' = [loc EXCEPT ![s] =
                           IF v.soup.ok
                             THEN [v.l EXCEPT !.pc = "p3sub",
                                              !.subpages = first_subpages(sub),
                                              !.sub_i = 1]
                           ELSE [v.l EXCEPT !.i = @ + 1]]
              /\ page_cache' = v.cache
    /\ UNCHANGED Env

\* for sp in subpages[:5]
P3Sub(s) ==
    LET l == loc[s] IN
    /\ l.pc = "p3sub"
    /\ l.sub_i <= Len(l.subpages)
    /\ LET url == l.subpages[l.sub_i].url IN
       IF url \in l.seen_urls
         THEN /\ loc' = [loc EXCEPT ![s].sub_i = @ + 1]
              /\ UNCHANGED page_cache
       ELSE \E netok \in Outcomes(url) :
              LET v == Visit(l, page_cache, url, netok, 3, 1) IN
              /\ loc' = [loc EXCEPT ![s] =
                           [sleep(v.l, SleepSub) EXCEPT !.sub_i = @ + 1]]
              /\ page_cache' = v.cache
    /\ UNCHANGED Env

P3SubEnd(s) ==
    LET l == loc[s] IN
    /\ l.pc = "p3sub"
    /\ l.sub_i > Len(l.subpages)
    /\ loc' = [loc EXCEPT ![s] =
                 [sleep(l, SleepResult) EXCEPT !.pc = "p3", !.i = @ + 1]]
    /\ UNCHANGED <<page_cache, Env>>

P3End(s) ==
    LET l == loc[s] IN
    /\ l.pc = "p3"
    /\ l.i > Len(l.google_urls)
    /\ loc' = [loc EXCEPT ![s] = [l EXCEPT !.pc = "g4", !.ended = PhaseEnd(l, 3)]]
    /\ UNCHANGED <<page_cache, Env>>

\* if not _has_strong_candidates(candidates): phase 4, from the domain alone
Guard4(s) ==
    LET l == loc[s] IN
    /\ l.pc = "g4"
    /\ loc' = [loc EXCEPT ![s] =
                 IF ~has_strong_candidates(l.candidates)
                   THEN [l EXCEPT !.pc = "p4",
                                  !.pq = << [neg_pri |-> -100, depth |-> 0,
                                             url |-> site.domain] >>,
                                  !.bfs_visited = 0,
                                  !.invoked = Append(@, 4)]
                 ELSE [l EXCEPT !.pc = "sort"]]
    /\ UNCHANGED <<page_cache, Env>>

\* The heap after pushing every unseen sub-page link, whatever the depth.
PushAll_nodepth(pq, subpages, seen_urls, depth, subpage_kw) ==
    LET unseen == SelectSeq(subpages, LAMBDA sp : sp.url \notin seen_urls)
    IN  pq \o [k \in 1..Len(unseen) |->
                 [neg_pri |-> 0 - link_pri(unseen[k], subpage_kw),
                  depth |-> depth + 1, url |-> unseen[k].url]]

\* if depth < 5: push an entry for every unseen sub-page link of the page
PushAll(pq, subpages, seen_urls, depth, subpage_kw) ==
    IF depth < BfsDepth
      THEN LET unseen == SelectSeq(subpages, LAMBDA sp : sp.url \notin seen_urls)
           IN  pq \o [k \in 1..Len(unseen) |->
                        [neg_pri |-> 0 - link_pri(unseen[k], subpage_kw),
                         depth |-> depth + 1, url |-> unseen[k].url]]
    ELSE pq

\* A loop that never stops early.
bfs_break_never(candidates) == FALSE

\* if _has_strong_candidates(candidates): break
bfs_break(candidates) == has_strong_candidates(candidates)

\* while pq and bfs_visited < max_pages: one iteration
\* A test that lets a visited URL through.
bfs_skip_depthonly(url, depth, seen_urls) == depth > BfsDepth

\* if url in seen_urls or depth > 5: continue
bfs_skip(url, depth, seen_urls) == url \in seen_urls \/ depth > BfsDepth

P4Step(s) ==
    LET l == loc[s] IN
    /\ l.pc = "p4"
    /\ l.pq # <<>>
    /\ l.bfs_visited < max_pages
    /\ LET k == HeapMin(l.pq)
           e == l.pq[k]
           popped == [l EXCEPT !.pq = RemoveAt(@, k),
                               !.last_pop = [k |-> k, pq |-> l.pq]]
       IN
       IF bfs_skip(e.url, e.depth, l.seen_urls)
         THEN /\ loc' = [loc EXCEPT ![s] = popped]
              /\ UNCHANGED page_cache
       ELSE \E netok \in Outcomes(e.url) :
              LET v == Visit([popped EXCEPT !.bfs_visited = @ + 1], page_cache,
                             e.url, netok, 4, e.depth)
                  sub == find_relevant_subpages(v.soup.anchors, e.url, site.domain,
                                                subpage_keywords_of(l.form_type))
                  pushed == IF v.soup.ok
                              THEN [sleep(v.l, SleepBfs) EXCEPT !.pq =
                                       PushAll(@, sub, v.l.seen_urls, e.depth,
                                               subpage_keywords_of(l.form_type))]
                            ELSE v.l
              IN
              /\ loc' = [loc EXCEPT ![s] =
                           IF v.soup.ok /\ bfs_break(pushed.candidates)
                             THEN [pushed EXCEPT !.pc = "sort"]
                           ELSE pushed]
              /\ page_cache' = v.cache
    /\ UNCHANGED Env

P4End(s) ==
    LET l == loc[s] IN
    /\ l.pc = "p4"
    /\ (l.pq = <<>> \/ l.bfs_visited >= max_pages)
    /\ loc' = [loc EXCEPT ![s].pc = "sort"]
    /\ UNCHANGED <<page_cache, Env>>

\* candidates.sort(key=lambda c: c["score"], reverse=True); return candidates
Finish(s) ==
    LET l == loc[s] IN
    /\ l.pc = "sort"
    /\ loc' = [loc EXCEPT ![s] =
                 [l EXCEPT !.pc = "done", !.candidates = sort_by_score(@)]]
    /\ UNCHANGED <<page_cache, Env>>

(***************************************************************************)
(* discover_and_scrape after crawl_for_forms has returned.  loc[s].files   *)
(* are the file names in the municipality's download directory, attempts   *)
(* the documents download_pdf was called for, flagged the reasons put into *)
(* results["flagged"]; the verdict of the validation is not kept.          *)
(***************************************************************************)
MinDownloadScore == 30
MaxDownloads     == 5

\* A selection that looks at the score only.
select_downloads_nogate(candidates, search_terms) ==
    LET ok == SelectSeq(candidates, LAMBDA c : c.score >= MinDownloadScore)
    IN  SubSeq(ok, 1, Min(MaxDownloads, Len(ok)))

\* [c for c in candidates if c["score"] >= 30 and _has_search_term_match(c, search_terms)][:5]
select_downloads(candidates, search_terms) ==
    LET ok == SelectSeq(candidates,
                        LAMBDA c : /\ c.score >= MinDownloadScore
                                   /\ has_search_term_match(c, search_terms))
    IN  SubSeq(ok, 1, Min(MaxDownloads, Len(ok)))

\* urlparse(url).path.split("/")[-1], with ".pdf" appended unless it ends so
Filename(url) ==
    LET k == CHOOSE i \in 1..Len(url) :
                 url[i] = "/" /\ \A j \in (i + 1)..Len(url) : url[j] # "/"
        name == SubSeq(url, k + 1, Len(url))
    IN  IF name # <<>> /\ name[Len(name)] = ".pdf" THEN name ELSE name \o <<".pdf">>

\* What download_pdf can return for a document: TRUE, or FALSE after a
\* RequestException.
DownloadOutcomes(url) == IF url = Form2Pdf THEN {TRUE, FALSE} ELSE {TRUE}

\* if not candidates: ...; download_candidates = [...][:5]; if none: ...
Select(s) ==
    LET l == loc[s]
        sel == select_downloads(l.candidates, search_terms_of(l.form_type))
    IN
    /\ l.pc = "done"
    /\ loc' = [loc EXCEPT ![s] =
                 IF l.candidates = <<>>
                   THEN [l EXCEPT !.pc = "returned",
                                  !.flagged = Append(@, "no candidates found")]
                 ELSE IF sel = <<>>
                   THEN [l EXCEPT !.pc = "returned",
                                  !.flagged = Append(@, "best score too low")]
                 ELSE [l EXCEPT !.pc = "dl", !.download_candidates = sel, !.dl_i = 1]]
    /\ UNCHANGED <<page_cache, Env>>

\* for c in download_candidates: skip an existing file, else download_pdf
Download(s) ==
    LET l == loc[s] IN
    /\ l.pc = "dl"
    /\ l.dl_i <= Len(l.download_candidates)
    /\ LET c == l.download_candidates[l.dl_i] IN
       IF Filename(c.url) \in l.files
         THEN loc' = [loc EXCEPT ![s].dl_i = @ + 1]
       ELSE \E ok \in DownloadOutcomes(c.url) :
              loc' = [loc EXCEPT ![s] =
                        [l EXCEPT !.dl_i = @ + 1,
                                  !.attempts = Append(@, c.url),
                                  !.files = IF ok THEN @ \cup {Filename(c.url)} ELSE @,
                                  !.flagged = IF ok THEN @
                                              ELSE Append(@, "download failed")]]
    /\ UNCHANGED <<page_cache, Env>>

\* return results
Return(s) ==
    LET l == loc[s] IN
    /\ l.pc = "dl"
    /\ l.dl_i > Len(l.download_candidates)
    /\ loc' = [loc EXCEPT ![s].pc = "returned"]
    /\ UNCHANGED <<page_cache, Env>>

Step(s) ==
    \/ Select(s) \/ Download(s) \/ Return(s)
    \/ Start(s) \/ P1Step(s) \/ P1End(s)
    \/ Guard2(s) \/ P2Probe(s) \/ P2ProbeEnd(s)
    \/ P2SeedStart(s) \/ P2CrawlStep(s) \/ P2CrawlEnd(s)
    \/ Guard3(s) \/ P3Step(s) \/ P3SubEnd(s) \/ P3Sub(s) \/ P3End(s)
    \/ Guard4(s) \/ P4Step(s) \/ P4End(s) \/ Finish(s)

(***************************************************************************)
(* One crawl session.                                                      *)
(***************************************************************************)
MaxPagesArg == 7     \* largest max_pages argument tried

NoInfo == [url |-> <<>>, link_text |-> <<>>, context |-> <<>>]
NoArgs == [search_terms |-> <<>>, form_type |-> "none"]
NoPrev == [score |-> -1, info |-> NoInfo, kw |-> <<>>, n |-> 0, again |-> -1]

ScorerIdle ==
    /\ pdf_info = NoInfo
    /\ sc_args = NoArgs
    /\ sc_score = -1
    /\ sc_prev = NoPrev

\* No --discover loop: discover_and_scrape is called for one municipality.
NoBatch == [registry |-> <<>>, i |-> 0, results |-> <<>>, aborted |-> FALSE]

\* Before crawl_for_forms(domain, form_type, max_pages) is called.
InitWith(sites, budgets) ==
    /\ batch = NoBatch
    /\ site \in sites
    /\ max_pages \in budgets
    /\ \E ft \in FormTypes :
          loc = [s \in Sessions |->
                   Idle(IF s = 1 THEN ft
                        ELSE CHOOSE o \in FormTypes : o # ft)]
    /\ page_cache = <<>>
    /\ ScorerIdle

Init == InitWith(Sites, 0..MaxPagesArg)

Next == Step(1)

Spec == Init /\ [][Next]_vars

\* The interpreter runs the call to its end: a step that can be taken is taken.
SpecLive == InitWith(Sites, {0, 2, MaxPagesArg}) /\ [][Next]_vars /\ WF_vars(Next)

(***************************************************************************)
(* One crawl session during which pages already requested are requested    *)
(* again.                                                                  *)
(***************************************************************************)
\* fetch_page(url) once more, for a URL the session has already requested;
\* loc[s].again holds the last such call.
Refetch(s) ==
    LET l == loc[s] IN
    /\ l.pc \notin {"idle", "raised"}
    /\ \E i \in 1..Len(l.fetched) :
          \E netok \in NetOutcomes(site, l.fetched[i].url) :
             LET f == fetch_page(page_cache, l.fetched[i].url, netok) IN
             /\ loc' = [loc EXCEPT ![s].again =
                          [url |-> l.fetched[i].url, hit |-> f.hit, ok |-> f.soup.ok]]
             /\ page_cache' = f.cache
    /\ UNCHANGED Env

NextFetch == Step(1) \/ Refetch(1)

\* The sessions with the largest page budget.
InitFetch == InitWith(Sites, {MaxPagesArg})

SpecFetch == InitFetch /\ [][NextFetch]_vars

(***************************************************************************)
(* The --discover loop of main: discover_and_scrape for every municipality *)
(* of the registry that has a domain, in the order of the sorted keys.     *)
(* batch.registry lists the municipalities' sites in that order, batch.i   *)
(* is the one at work, batch.results is all_results, batch.aborted says    *)
(* that an exception left the loop.                                        *)
(***************************************************************************)
\* A registry entry without "domain".
NoDomainSite ==
    [name |-> "nodomain", domain |-> <<>>, sitemap |-> NoSitemap, pages |-> <<>>,
     tree |-> NoTree, google |-> NoGoogle, flaky |-> {}]

Registries ==
    { <<IndexSite, NoDomainSite, GoogleSite, BadLocSite,
        SeedSite("seed_chain", 1, {4}, FALSE)>>,
      <<SeedSite("seed_chain", 1, {4}, FALSE), NoDomainSite, DedupSite>> }

InitBatch ==
    /\ \E reg \in Registries :
          /\ batch = [registry |-> reg, i |-> 1, results |-> <<>>, aborted |-> FALSE]
          /\ site = reg[1]
    /\ max_pages = MaxPagesArg
    /\ \E ft \in FormTypes : loc = [s \in Sessions |-> Idle(ft)]
    /\ page_cache = <<>>
    /\ ScorerIdle

\* The loop moves on to the next key.
BatchAdvance(results) ==
    /\ batch' = [batch EXCEPT !.i = @ + 1, !.results = results]
    /\ site' = IF batch.i < Len(batch.registry) THEN batch.registry[batch.i + 1]
               ELSE site
    /\ loc' = [loc EXCEPT ![1] = Idle(loc[1].form_type)]
    /\ UNCHANGED <<max_pages, page_cache, pdf_info, sc_args, sc_score, sc_prev>>

\* if not cfg.get("domain"): continue
BatchSkip ==
    /\ batch.i \in 1..Len(batch.registry)
    /\ ~batch.aborted
    /\ loc[1].pc = "idle"
    /\ site.domain = <<>>
    /\ BatchAdvance(batch.results)

\* discover_and_scrape(muni_key, cfg, form_type, prefecture, args.max_pages) at work
BatchCrawl ==
    /\ batch.i \in 1..Len(batch.registry)
    /\ ~batch.aborted
    /\ site.domain # <<>>
    /\ Step(1)

\* all_results[muni_key] = the returned results
BatchStore ==
    /\ batch.i \in 1..Len(batch.registry)
    /\ loc[1].pc = "returned"
    /\ BatchAdvance(Append(batch.results,
                           [key |-> batch.i, flagged |-> loc[1].flagged,
                            attempts |-> Len(loc[1].attempts)]))

\* An exception raised in discover_and_scrape is caught nowhere: it leaves
\* the loop and main.
BatchAbort ==
    /\ batch.i \in 1..Len(batch.registry)
    /\ ~batch.aborted
    /\ loc[1].pc = "raised"
    /\ batch' = [batch EXCEPT !.aborted = TRUE]
    /\ UNCHANGED <<site, max_pages, loc, page_cache, pdf_info, sc_args, sc_score, sc_prev>>

NextBatch == BatchSkip \/ BatchCrawl \/ BatchStore \/ BatchAbort

SpecBatch == InitBatch /\ [][NextBatch]_vars

(***************************************************************************)
(* Two sessions for the same municipality, one per form type, interleaved  *)
(* step by step.  _page_cache is a module-level dictionary: both sessions  *)
(* work on page_cache.                                                     *)
(***************************************************************************)
NextTwo == Step(1) \/ Step(2)

TwoPages == 1        \* max_pages of the interleaved sessions

\* The site s with a sitemap that lists the residence form page.
WithSitemap(s) ==
    [s EXCEPT !.sitemap = Urlset(<<FormHtml>>),
              !.pages = (FormHtml :> <<Anchor(FormPdf, T_strong)>>) @@ @]

TwoSites ==
    { WithSitemap(SeedSite("seed_chain", 1, {4}, FALSE)), WithSitemap(GoogleSite) }

InitTwo ==
    /\ InitWith(TwoSites, {TwoPages})
    /\ loc[1].form_type = "residence"

SpecTwo == InitTwo /\ [][NextTwo]_vars

(***************************************************************************)
(* score_candidate on its own: a candidate is scored, then scored again    *)
(* with one more occurrence of a negative keyword in its text.             *)
(***************************************************************************)
MaxWords == 2        \* words in a link text
MaxAdds  == 1        \* negative keywords added to one candidate

ShoboPdf == U(<<"/", "shobo", "/", "download", "/", "form", ".pdf">>)
RichPdf  == U(<<"/", "kurashi", "/", "todokede", "/", "download", "/", "yoshiki",
                "/", "tennyu", "/", "form", ".pdf">>)

Words == {T_strong, T_weak, T_neg, T_nhi, T_dl}

RECURSIVE TextsOf(_)
TextsOf(n) ==
    IF n = 0 THEN {<<>>}
    ELSE TextsOf(n - 1) \cup {t \o w : t \in TextsOf(n - 1), w \in Words}

Contexts == {<<>>, T_weak2, T_neg}

ScoreArgs ==
    { [search_terms |-> SEARCH_TERMS, form_type |-> "none"],
      [search_terms |-> SEARCH_TERMS, form_type |-> "residence"],
      [search_terms |-> NHI_SEARCH_TERMS, form_type |-> "nhi"] }

AddedKeywords == {NEGATIVE_KEYWORDS[1], NEGATIVE_KEYWORDS[2]}

InitScore ==
    /\ batch = NoBatch
    /\ site = SitemapSite("strong", T_strong)
    /\ max_pages = 0
    /\ loc = [s \in Sessions |-> Idle(IF s = 1 THEN "residence" ELSE "nhi")]
    /\ page_cache = <<>>
    /\ pdf_info \in [url : {FormPdf, ShoboPdf, RichPdf}, link_text : TextsOf(MaxWords),
                      context : Contexts]
    /\ sc_args \in ScoreArgs
    /\ sc_score = -1
    /\ sc_prev = NoPrev

\* pdf["score"] = score_candidate(pdf, search_terms, form_type=form_type)
ScoreCall ==
    /\ sc_score = -1
    /\ sc_score' = score_candidate(pdf_info, sc_args.search_terms, sc_args.form_type)
    /\ UNCHANGED <<site, max_pages, loc, page_cache, pdf_info, sc_args, sc_prev, batch>>

\* The same candidate with keyword kw appended to its link text or to its
\* context, scored with the same arguments; sc_prev keeps the earlier call.
AddNegative ==
    /\ sc_score # -1
    /\ sc_prev.n < MaxAdds
    /\ \E kw \in AddedKeywords, field \in {"link_text", "context"} :
          /\ pdf_info' = IF field = "link_text"
                            THEN [pdf_info EXCEPT !.link_text = @ \o kw]
                          ELSE [pdf_info EXCEPT !.context = @ \o kw]
          /\ sc_prev' = [score |-> sc_score, info |-> pdf_info, kw |-> kw,
                         n |-> sc_prev.n + 1, again |-> -1]
    /\ sc_score' = score_candidate(pdf_info', sc_args.search_terms, sc_args.form_type)
    /\ UNCHANGED <<site, max_pages, loc, page_cache, sc_args, batch>>

\* The earlier candidate is scored once more with the same arguments, after
\* the call for the longer text; its URL may name another host.
\* sc_prev.again keeps what this call returned.
ScoreAgain ==
    /\ sc_prev # NoPrev
    /\ sc_prev.again = -1
    /\ \E host \in {Host, "city2"} :
          sc_prev' = [sc_prev EXCEPT !.again =
                         score_candidate([sc_prev.info EXCEPT !.url = <<host>> \o Tail(@)],
                                         sc_args.search_terms, sc_args.form_type)]
    /\ UNCHANGED <<site, max_pages, loc, page_cache, pdf_info, sc_args, sc_score, batch>>

NextScore == ScoreCall \/ AddNegative \/ ScoreAgain

SpecScore == InitScore /\ [][NextScore]_vars

(***************************************************************************)
(* Properties of one crawl session.                                        *)
(***************************************************************************)
\* The place of a candidate in the order of discovery: the first link to
\* its document that scored above 0.
DiscoveredAt(l, url) ==
    CHOOSE i \in 1..Len(l.discovered) :
        /\ l.discovered[i].url = url /\ l.discovered[i].score > 0
        /\ \A j \in 1..(i - 1) :
              ~(l.discovered[j].url = url /\ l.discovered[j].score > 0)

C2_FirstSeenWins ==
    \A s \in Sessions :
        LET l == loc[s]
            d == l.discovered
            c == l.candidates
        IN  l.pc = "done" =>
              \A i \in 1..Len(d) :
                 ( /\ \A j \in 1..(i - 1) : d[j].url # d[i].url
                   /\ \E j \in (i + 1)..Len(d) : d[j].url = d[i].url )
                 => /\ Cardinality({k \in 1..Len(c) : c[k].url = d[i].url}) = 1
                    /\ \A k \in 1..Len(c) :
                          c[k].url = d[i].url =>
                              /\ c[k].score = d[i].score
                              /\ c[k].found_on = d[i].found_on

\* C2, amended: a document is in the candidate list at most once, and exactly
\* once if some link to it scored above 0; its entry keeps the score and the
\* found-on page of the first discovery that scored above 0.
C2_FirstScoringWins ==
    \A s \in Sessions :
        LET l == loc[s]
            d == l.discovered
            c == l.candidates
        IN  /\ \A k1, k2 \in 1..Len(c) : c[k1].url = c[k2].url => k1 = k2
            /\ \A i \in 1..Len(d) :
                  d[i].score > 0 => \E k \in 1..Len(c) : c[k].url = d[i].url
            /\ \A k \in 1..Len(c) :
                  /\ \E i \in 1..Len(d) : d[i].url = c[k].url /\ d[i].score > 0
                  /\ c[k].score = d[DiscoveredAt(l, c[k].url)].score
                  /\ c[k].found_on = d[DiscoveredAt(l, c[k].url)].found_on

\* A returned list with a document that scored 0 where it was first met and
\* was taken from a later page.
C2_Witness ==
    LET l == loc[1]
        d == l.discovered
    IN  /\ l.pc = "done"
        /\ \E i, j \in 1..Len(d) :
              /\ i < j /\ d[i].url = d[j].url
              /\ \A h \in 1..(i - 1) : d[h].url # d[i].url
              /\ d[i].score = 0 /\ d[j].score > 0
              /\ d[i].found_on # d[j].found_on
              /\ \E k \in 1..Len(l.candidates) :
                    /\ l.candidates[k].url = d[j].url
                    /\ l.candidates[k].found_on = d[j].found_on

\* C3: the best-first crawl marks visited and fetches at most max_pages
\* pages, none of them deeper than the depth limit, and no entry of its queue
\* is deeper than the depth limit.
C3_BudgetBound ==
    \A s \in Sessions :
        LET l == loc[s] IN
        /\ Cardinality({i \in 1..Len(l.fetched) : l.fetched[i].phase = 4}) <= max_pages
        /\ l.bfs_visited <= max_pages
        /\ \A i \in 1..Len(l.fetched) :
              l.fetched[i].phase = 4 => l.fetched[i].depth <= BfsDepth
        /\ \A k \in 1..Len(l.pq) : l.pq[k].depth <= BfsDepth

\* The budget ends a best-first crawl that has reached the depth limit and
\* still has entries queued.
C3_Witness ==
    LET l == loc[1] IN
    /\ l.pc = "sort"
    /\ max_pages > 0
    /\ l.bfs_visited = max_pages
    /\ l.pq # <<>>
    /\ \E i \in 1..Len(l.fetched) :
          /\ l.fetched[i].phase = 4 /\ l.fetched[i].depth = BfsDepth
          /\ l.fetched[i].ok

\* C4: when the sitemap lists /kurashi/todokede/form.html and that page
\* links /forms/form.pdf with a search term of the form type as its text,
\* then after phase 1 the list has /forms/form.pdf with a score of at least
\* 30 and phases 2, 3 and 4 are not entered.
C4_SitemapHit ==
    \A s \in Sessions :
        LET l == loc[s]
            terms == search_terms_of(l.form_type)
        IN  ( /\ l.pc \notin {"idle", "raised", "p1"}
              /\ \E k \in 1..Len(l.fetched) :
                    /\ l.fetched[k].url = FormHtml
                    /\ l.fetched[k].phase = 1
                    /\ l.fetched[k].ok
              /\ \E t \in 1..Len(terms) :
                    Page(site, FormHtml) = <<Anchor(FormPdf, terms[t])>> )
            => /\ \E k \in 1..Len(l.candidates) :
                     /\ l.candidates[k].url = FormPdf
                     /\ l.candidates[k].score >= 30
               /\ l.invoked = <<1>>

\* C7: crawl_for_forms never raises.
C7_NeverRaises ==
    \A s \in Sessions : loc[s].pc # "raised"

\* C10: the returned list is in descending order of score, and candidates
\* of equal score are in the order of their discovery.
C10_Ranking ==
    \A s \in Sessions :
        LET l == loc[s]
            c == l.candidates
        IN  l.pc = "done" =>
              \A i, j \in 1..Len(c) :
                  i < j =>
                     \/ c[i].score > c[j].score
                     \/ /\ c[i].score = c[j].score
                        /\ DiscoveredAt(l, c[i].url) < DiscoveredAt(l, c[j].url)

\* A returned list with two candidates of equal score and one that the sort
\* moved ahead of an earlier discovery.
C10_Witness ==
    LET l == loc[1]
        c == l.candidates
    IN  /\ l.pc = "done"
        /\ \E i, j \in 1..Len(c) : i < j /\ c[i].score = c[j].score
        /\ \E i, j \in 1..Len(c) :
              /\ i < j
              /\ DiscoveredAt(l, c[i].url) > DiscoveredAt(l, c[j].url)

\* C5: in one session a page URL is requested over the network at most
\* once: a later fetch of it is answered from the cache, with the outcome of
\* the first fetch, an unavailable page included.
C5_FetchedOnce ==
    \A s \in Sessions :
        LET f == loc[s].fetched
            r == loc[s].again
        IN  /\ \A i, j \in 1..Len(f) :
                  (i < j /\ f[i].url = f[j].url) => (f[j].hit /\ f[j].ok = f[i].ok)
            /\ r # NoFetch =>
                  /\ r.hit
                  /\ \E i \in 1..Len(f) : f[i].url = r.url /\ f[i].ok = r.ok

\* A page the server has was unavailable, is requested again, and the cache
\* answers that it is unavailable.
C5_Witness ==
    LET f == loc[1].fetched
        r == loc[1].again
    IN  /\ r # NoFetch /\ r.hit /\ ~r.ok
        /\ Exists(site, r.url)
        /\ \E i \in 1..Len(f) : f[i].url = r.url /\ ~f[i].hit /\ ~f[i].ok

\* C6: a session neither reads nor changes the page store of another: each
\* of its fetches goes to the network, as when it runs alone, and the pages
\* it has fetched stay stored while it runs.
C6_Independent ==
    \A s \in Sessions :
        LET l == loc[s] IN
        /\ \A i \in 1..Len(l.fetched) : ~l.fetched[i].hit
        /\ l.pc \notin {"idle", "done", "dl", "returned"} =>
              \A i \in 1..Len(l.fetched) : l.fetched[i].url \in DOMAIN page_cache

(***************************************************************************)
(* Properties of score_candidate.                                          *)
(***************************************************************************)
\* C8: score_candidate returns an integer from 0 to 100.
C8_ScoreRange ==
    sc_score # -1 => (sc_score \in Int /\ 0 <= sc_score /\ sc_score <= 100)

\* A sum above 100 is returned as 100, before and after a keyword is added.
C8_Witness ==
    /\ sc_score = 100
    /\ score_sum(pdf_info, sc_args.search_terms, sc_args.form_type) > 100
    /\ sc_prev # NoPrev
    /\ sc_prev.score = 100
    /\ score_sum(sc_prev.info, sc_args.search_terms, sc_args.form_type) > 100

\* C9 as stated: one more occurrence of a negative keyword in the text gives
\* a strictly lower score, or an equal one only when the score is 0.
C9_StrictlyLower ==
    sc_prev # NoPrev =>
        \/ sc_score < sc_prev.score
        \/ sc_score = sc_prev.score /\ sc_score = 0

\* C9, amended: a negative keyword appended to the link text or the context
\* never raises the score, and lowers it when the keyword was not in the
\* text before and the earlier score was above 0 and below 100.
C9_NeverHigher ==
    sc_prev # NoPrev =>
        /\ sc_score <= sc_prev.score
        /\ ( /\ ~IsSub(sc_prev.kw, sc_prev.info.link_text \o <<" ">> \o sc_prev.info.context)
             /\ 0 < sc_prev.score
             /\ sc_prev.score < 100 )
           => sc_score < sc_prev.score

\* A keyword new to the text lowered a score that was between 0 and 100.
C9_Witness ==
    /\ sc_prev # NoPrev
    /\ ~IsSub(sc_prev.kw, sc_prev.info.link_text \o <<" ">> \o sc_prev.info.context)
    /\ 0 < sc_score
    /\ sc_score < sc_prev.score
    /\ sc_prev.score < 100

(***************************************************************************)
(* Properties of discover_and_scrape.                                      *)
(***************************************************************************)
\* C11: download_pdf is called only for candidates with a score of at least
\* 30 and a search term in link text or context, that are among the first
\* five such candidates of the ranked list; for at most five of them; and
\* a returned call has tried each of those five unless its file existed.
C11_SelectionGate ==
    \A s \in Sessions :
        LET l == loc[s]
            c == l.candidates
            terms == search_terms_of(l.form_type)
            Eligible(k) == /\ c[k].score >= 30
                           /\ \E t \in 1..Len(terms) :
                                 IsSub(terms[t], c[k].link_text \o <<" ">> \o c[k].context)
            Rank(k) == Cardinality({h \in 1..k : Eligible(h)})
        IN  /\ Len(l.attempts) <= 5
            /\ \A a \in 1..Len(l.attempts) :
                  \E k \in 1..Len(c) :
                      c[k].url = l.attempts[a] /\ Eligible(k) /\ Rank(k) <= 5
            /\ (l.pc = "returned" /\ l.download_candidates # <<>>) =>
                  \A k \in 1..Len(c) :
                      (Eligible(k) /\ Rank(k) <= 5) =>
                          \/ \E a \in 1..Len(l.attempts) : l.attempts[a] = c[k].url
                          \/ Filename(c[k].url) \in l.files

\* A returned call that had more than five candidates passing the gate and
\* one with a score of at least 30 but no search term, ranked first.
C11_Witness ==
    LET l == loc[1]
        c == l.candidates
    IN  /\ l.pc = "returned"
        /\ l.attempts # <<>>
        /\ Cardinality({k \in 1..Len(c) :
                           /\ c[k].score >= 30
                           /\ has_search_term_match(c[k], search_terms_of(l.form_type))}) > 5
        /\ c[1].score >= 30
        /\ ~has_search_term_match(c[1], search_terms_of(l.form_type))
        /\ \A a \in 1..Len(l.attempts) : l.attempts[a] # c[1].url

Found(list, hay) == Cardinality({k \in 1..Len(list) : IsSub(list[k], hay)})

\* The terms of the other form type.
CrossTerms(form_type) ==
    IF form_type = "residence" THEN CROSS_RESIDENCE
    ELSE IF form_type = "nhi" THEN CROSS_NHI
    ELSE <<>>

\* 30 P + 5 S + 10 D - 20 N - 10 NP - 20 X for the candidate info
ScoreFormula(info, args) ==
    LET combined == info.link_text \o <<" ">> \o info.context
        path == Lower(Tail(info.url))
    IN  30 * Found(args.search_terms, combined)
        + 5 * Found(FORM_PATH_SEGMENTS, path)
        + 10 * Found(DOWNLOAD_CONTEXT_KEYWORDS, combined)
        - 20 * Found(NEGATIVE_KEYWORDS, combined)
        - 10 * Found(NEGATIVE_PATH_SEGMENTS, path)
        - 20 * Found(CrossTerms(args.form_type), combined)

\* C21: score_candidate returns max(0, min(100, 30 P + 5 S + 10 D - 20 N -
\* 10 NP - 20 X)), the letters counting the search terms, form path
\* segments, download keywords, negative keywords, negative path segments
\* and terms of the other form type found in the text or the URL path.
C21_ScoreFormula ==
    sc_score # -1 =>
        LET f == ScoreFormula(pdf_info, sc_args) IN
        sc_score = (IF f < 0 THEN 0 ELSE IF f > 100 THEN 100 ELSE f)

\* A score between 0 and 100 of a text with two search terms, a term of
\* the other form type or a negative keyword, and a URL with a negative
\* path segment.
C21_Witness ==
    LET combined == pdf_info.link_text \o <<" ">> \o pdf_info.context IN
    /\ 0 < sc_score
    /\ sc_score < 100
    /\ Found(sc_args.search_terms, combined) >= 2
    /\ Found(CrossTerms(sc_args.form_type), combined)
          + Found(NEGATIVE_KEYWORDS, combined) >= 1
    /\ Found(NEGATIVE_PATH_SEGMENTS, Lower(Tail(pdf_info.url))) >= 1

(***************************************************************************)
(* Properties of the seed crawl (phase 2).                                 *)
(***************************************************************************)
\* The pages of the generated section at `depth` links below root r.
RECURSIVE TreeLevel(_, _)
TreeLevel(r, depth) ==
    IF depth = 0 THEN {r}
    ELSE {u \o <<ChildTok[k], "/">> : u \in TreeLevel(r, depth - 1),
                                       k \in 1..site.tree.branch}

\* The place of page r \o rest among the pages of its depth, from 0, in the
\* order of the links.
RECURSIVE PlaceInLevel(_)
PlaceInLevel(rest) ==
    IF rest = <<>> THEN 0
    ELSE LET n == Len(rest)
             k == CHOOSE j \in 1..Len(ChildTok) : ChildTok[j] = rest[n - 1]
         IN  PlaceInLevel(SubSeq(rest, 1, n - 2)) * site.tree.branch + (k - 1)

\* The number of pages a breadth-first crawl from r fetches up to and
\* including page u at `depth` >= 1.
BfsRank(r, u, depth) ==
    Cardinality(UNION {TreeLevel(r, d) : d \in 1..(depth - 1)})
        + PlaceInLevel(SubSeq(u, Len(r) + 1, Len(u))) + 1

\* The documents with a search term in the link text that page u links.
FormLinks(l, u) ==
    LET page == Page(site, u)
        terms == search_terms_of(l.form_type)
    IN  {page[k].href : k \in {j \in 1..Len(page) :
                                  /\ EndsWithPdf(page[j].href)
                                  /\ \E t \in 1..Len(terms) :
                                        IsSub(terms[t], page[j].text)}}

\* The anchor text of the link to page url on the page one level above it.
LinkText(url) ==
    LET page == Page(site, SubSeq(url, 1, Len(url) - 2))
    IN  page[CHOOSE k \in 1..Len(page) : page[k].href = url].text

\* C22 as stated: the crawl from a seed takes the pending link of the
\* highest relevance next, fetches at most 30 pages and none deeper than 4.
C22_RelevanceFirst ==
    \A s \in Sessions :
        LET l == loc[s]
            q == l.seed_pop.q
            k == l.seed_pop.k
            kw == subpage_keywords_of(l.form_type)
            Pri(e) == link_pri([url |-> e.url, text |-> LinkText(e.url)], kw)
        IN  /\ k # 0 => \A j \in 1..Len(q) : Pri(q[k]) >= Pri(q[j])
            /\ l.seed_pages <= 30
            /\ \A f \in 1..Len(l.fetched) : l.fetched[f].phase = 2 => l.fetched[f].depth <= 4

\* C22, amended: the crawl from a seed takes the pending link that was
\* queued first, which is one of the least depth: it is breadth-first, in
\* the order of the links on each page; it fetches at most 30 pages and
\* none deeper than 4.
C22_BreadthFirst ==
    \A s \in Sessions :
        LET l == loc[s]
            q == l.seed_pop.q
            k == l.seed_pop.k
        IN  /\ k # 0 => (k = 1 /\ \A j \in 1..Len(q) : q[k].depth <= q[j].depth)
            /\ \A j \in 2..Len(l.seed_queue) :
                  l.seed_queue[j - 1].depth <= l.seed_queue[j].depth
            /\ l.seed_pages <= 30
            /\ \A f \in 1..Len(l.fetched) : l.fetched[f].phase = 2 => l.fetched[f].depth <= 4

\* The crawl from a seed has used its 30 pages, reached depth 3 and took a
\* link although one of higher relevance was pending.
C22_Witness ==
    LET l == loc[1]
        q == l.seed_pop.q
        kw == subpage_keywords_of(l.form_type)
        Pri(e) == link_pri([url |-> e.url, text |-> LinkText(e.url)], kw)
    IN  /\ l.seed_pages = 30
        /\ \E f \in 1..Len(l.fetched) : l.fetched[f].phase = 2 /\ l.fetched[f].depth = 3
        /\ l.seed_pop.k = 1
        /\ \E j \in 2..Len(q) : Pri(q[j]) > Pri(q[1])

C18_FifoTies ==
    \A s \in Sessions :
        LET q == loc[s].last_pop.pq
            k == loc[s].last_pop.k
        IN  k # 0 =>
              /\ \A j \in 1..Len(q) : q[k].neg_pri <= q[j].neg_pri
              /\ \A j \in 1..(k - 1) : q[j].neg_pri # q[k].neg_pri

\* C18, amended: heappop returns an entry of the highest relevance, of
\* those one of the least depth, and of those the one whose URL comes first
\* in code-point order.
C18_TupleOrder ==
    \A s \in Sessions :
        LET q == loc[s].last_pop.pq
            k == loc[s].last_pop.k
        IN  k # 0 =>
              \A j \in 1..Len(q) :
                  \/ q[k].neg_pri < q[j].neg_pri
                  \/ q[k].neg_pri = q[j].neg_pri /\ q[k].depth < q[j].depth
                  \/ /\ q[k].neg_pri = q[j].neg_pri
                     /\ q[k].depth = q[j].depth
                     /\ ~UrlLess(q[j].url, q[k].url)

\* heappop returned an entry pushed after another entry of the same
\* relevance and depth, out of a queue of three.
C18_Witness ==
    LET q == loc[1].last_pop.pq
        k == loc[1].last_pop.k
    IN  /\ k > 1
        /\ Len(q) >= 3
        /\ \E j \in 1..(k - 1) : q[j].neg_pri = q[k].neg_pri /\ q[j].depth = q[k].depth

\* C19 as stated: every document link met on a fetched page has its URL in
\* seen_pdfs and in the candidate list, whatever its score.
C19_AllAdded ==
    \A s \in Sessions :
        LET l == loc[s] IN
        \A d \in 1..Len(l.discovered) :
            /\ l.discovered[d].url \in l.seen_pdfs
            /\ \E c \in 1..Len(l.candidates) : l.candidates[c].url = l.discovered[d].url

\* C19, amended: the URL of a document link met on a fetched page is in
\* seen_pdfs and in the candidate list exactly when a link to it met so far
\* scored above 0; seen_pdfs holds the URLs of the candidates and no other.
C19_AddedIfPositive ==
    \A s \in Sessions :
        LET l == loc[s]
            Positive(u) == \E e \in 1..Len(l.discovered) :
                               l.discovered[e].url = u /\ l.discovered[e].score > 0
        IN  /\ \A d \in 1..Len(l.discovered) :
                  /\ l.discovered[d].url \in l.seen_pdfs <=> Positive(l.discovered[d].url)
                  /\ (\E c \in 1..Len(l.candidates) :
                         l.candidates[c].url = l.discovered[d].url)
                     <=> Positive(l.discovered[d].url)
            /\ l.seen_pdfs = {l.candidates[c].url : c \in 1..Len(l.candidates)}
            /\ \A c \in 1..Len(l.candidates) : l.candidates[c].score > 0

\* A returned list with candidates, of a session that met a document link
\* scoring 0 whose URL is in neither seen_pdfs nor the list.
C19_Witness ==
    LET l == loc[1] IN
    /\ l.pc = "done"
    /\ l.candidates # <<>>
    /\ \E d \in 1..Len(l.discovered) :
          /\ l.discovered[d].score = 0
          /\ l.discovered[d].url \notin l.seen_pdfs
          /\ \A c \in 1..Len(l.candidates) : l.candidates[c].url # l.discovered[d].url

\* C23: a page fetched in phase 3 was not fetched before in the session and
\* is a search result or a link of the last search result fetched, one of
\* at most five fetched for that result with no other fetch in between.
C23_SearchFanOut ==
    \A s \in Sessions :
        LET f == loc[s].fetched IN
        \A k \in 1..Len(f) :
            f[k].phase = 3 =>
                /\ \A j \in 1..(k - 1) : f[j].url # f[k].url
                /\ f[k].depth \in {0, 1}
                /\ f[k].depth = 0 =>
                      \E g \in 1..Len(site.google.urls) : site.google.urls[g] = f[k].url
                /\ f[k].depth = 1 =>
                      \E r \in 1..(k - 1) :
                          /\ f[r].phase = 3 /\ f[r].depth = 0 /\ f[r].ok
                          /\ k - r <= 5
                          /\ \A m \in (r + 1)..k : f[m].phase = 3 /\ f[m].depth = 1
                          /\ \E a \in 1..Len(Page(site, f[r].url)) :
                                Page(site, f[r].url)[a].href = f[k].url

\* A returned session that fetched five links of a search result and never
\* its sixth, nor any link of the five pages.
C23_Witness ==
    LET l == loc[1]
        f == l.fetched
    IN  /\ l.pc = "done"
        /\ \E r \in 1..Len(f) :
              /\ f[r].phase = 3 /\ f[r].depth = 0
              /\ r + 5 <= Len(f)
              /\ \A m \in (r + 1)..(r + 5) : f[m].phase = 3 /\ f[m].depth = 1 /\ f[m].ok
              /\ Len(Page(site, f[r].url)) > 5
              /\ \E a \in 1..Len(Page(site, f[r].url)) :
                    /\ TreeRootOf(site.tree, Page(site, f[r].url)[a].href) # {}
                    /\ \A m \in 1..Len(f) : f[m].url # Page(site, f[r].url)[a].href
              /\ \A m \in 1..Len(f) :
                    StartsWith(f[m].url, f[r].url) => Len(f[m].url) <= Len(f[r].url) + 2

\* C24: when the search fails, phase 3 fetches no page, ends with the best
\* score phase 2 ended with, and the session does not raise in it.
C24_SearchFailOpen ==
    \A s \in Sessions :
        LET l == loc[s] IN
        (~site.google.ok /\ \E i \in 1..Len(l.invoked) : l.invoked[i] = 3) =>
            /\ l.pc # "raised"
            /\ l.pc # "p3sub"
            /\ \A k \in 1..Len(l.fetched) : l.fetched[k].phase # 3
            /\ \A e \in 1..Len(l.ended) :
                  l.ended[e].phase = 3 =>
                      \E d \in 1..(e - 1) :
                          l.ended[d].phase = 2 /\ l.ended[d].best = l.ended[e].best

\* A returned session whose search answered with an error and a body that
\* names pages of the site, and that went on to phase 4.
C24_Witness ==
    LET l == loc[1] IN
    /\ l.pc = "done"
    /\ ~site.google.ok
    /\ site.google.urls # <<>>
    /\ \E e \in 1..Len(l.ended) : l.ended[e].phase = 3
    /\ \E k \in 1..Len(l.fetched) : l.fetched[k].phase = 4

\* The sleep between two consecutive fetches p and c of a session.
SleepBetween(p, c) ==
    (IF p.phase \in {1, 4} THEN (IF p.ok THEN 1000 ELSE 0)
     ELSE IF p.phase = 2 THEN (IF p.ok THEN 500 ELSE 0)
     ELSE IF p.depth = 0
       THEN (IF p.ok /\ ~(c.phase = 3 /\ c.depth = 1) THEN 1000 ELSE 0)
     ELSE 500 + (IF c.phase = 3 /\ c.depth = 1 THEN 0 ELSE 1000))
    + (IF p.phase <= 2 /\ c.phase >= 3 THEN 2000 ELSE 0)

\* C20 as stated: the session sleeps between any two consecutive fetches,
\* a failed earlier fetch included, and always for the same time.
C20_SameDelay ==
    \A s \in Sessions :
        LET f == loc[s].fetched IN
        \A j, k \in 2..Len(f) : f[k].slept > 0 /\ f[j].slept = f[k].slept

\* C20, amended: the sleep between two consecutive fetches depends on the
\* earlier one: 1 s after a page of the sitemap or of the best-first crawl,
\* 0.5 s after a seed page, none after a fetch of these loops that failed;
\* none between a search result and its first sub-link, 0.5 s after a
\* sub-link whether it failed or not, 1 s more after the sub-links of a
\* result; and 2 s more when the search is queried in between.
C20_DelayByPhase ==
    \A s \in Sessions :
        LET f == loc[s].fetched IN
        \A k \in 2..Len(f) : f[k].slept = SleepBetween(f[k - 1], f[k])

\* A session that fetched without a sleep after a failed fetch, after a
\* sleep of 0.5 s, and after a sleep of more than 2 s.
C20_Witness ==
    LET f == loc[1].fetched IN
    /\ \E k \in 2..Len(f) : f[k].slept = 0 /\ ~f[k - 1].ok
    /\ \E k \in 2..Len(f) : f[k].slept = 500
    /\ \E k \in 2..Len(f) : f[k].slept > 2000

\* C26: in every state each candidate has a score from 1 to 100, the URLs
\* of the candidates are the elements of seen_pdfs, and each candidate
\* carries the score and page of the first link to its URL that scored
\* above 0, every earlier link to that URL having scored 0.
C26_CandidateInvariant ==
    \A s \in Sessions :
        LET l == loc[s]
            c == l.candidates
            d == l.discovered
        IN  /\ \A k \in 1..Len(c) : c[k].score \in 1..100
            /\ {c[k].url : k \in 1..Len(c)} = l.seen_pdfs
            /\ \A k \in 1..Len(c) :
                  \E e \in 1..Len(d) :
                      /\ d[e].url = c[k].url
                      /\ d[e].score = c[k].score
                      /\ d[e].found_on = c[k].found_on
                      /\ \A b \in 1..(e - 1) : d[b].url = c[k].url => d[b].score = 0
            /\ \A e \in 1..Len(d) :
                  (\A b \in 1..Len(d) : d[b].url = d[e].url => d[b].score = 0)
                      => d[e].url \notin l.seen_pdfs

\* A candidate found on a page fetched after another page whose link to the
\* same URL scored 0, in a session still crawling.
C26_Witness ==
    LET l == loc[1]
        c == l.candidates
        d == l.discovered
    IN  /\ l.pc = "p4"
        /\ \E k \in 1..Len(c) : \E b \in 1..Len(d) :
              /\ d[b].url = c[k].url
              /\ d[b].score = 0
              /\ d[b].found_on # c[k].found_on
              /\ c[k].score < 100

(***************************************************************************)
(* The visited set across the phases.                                      *)
(***************************************************************************)
\* The URLs the session requested in phases 1 to 3.
FetchedEarlier(l) ==
    {l.fetched[i].url : i \in {j \in 1..Len(l.fetched) : l.fetched[j].phase < 4}}

\* The requests of phase 4, as positions in the log.
FetchedBfs(l) == {j \in 1..Len(l.fetched) : l.fetched[j].phase = 4}

\* C27: seen_urls is one set for the four phases.  No URL requested in
\* phases 1-3 is requested in phase 4; bfs_visited counts exactly the requests
\* of phase 4; every heap entry below the root was found on a page that phase
\* 4 itself fetched, one level up; and when the domain root was requested in
\* an earlier phase, phase 4 requests nothing and bfs_visited stays 0.
C27_SharedVisited ==
    \A s \in Sessions :
        LET l == loc[s]
            f == l.fetched
        IN  /\ \A j \in FetchedBfs(l) : f[j].url \notin FetchedEarlier(l)
            /\ l.pc \in {"p4", "sort", "done", "dl", "returned"} /\ (\E i \in 1..Len(l.invoked) : l.invoked[i] = 4)
                  => l.bfs_visited = Cardinality(FetchedBfs(l))
            /\ l.pc = "p4" =>
                  \A k \in 1..Len(l.pq) :
                     l.pq[k].depth > 0 =>
                        \E j \in FetchedBfs(l) :
                           /\ f[j].ok
                           /\ f[j].depth + 1 = l.pq[k].depth
                           /\ f[j].url \notin FetchedEarlier(l)
                           /\ LET sub == find_relevant_subpages(
                                             Page(site, f[j].url), f[j].url, site.domain,
                                             subpage_keywords_of(l.form_type))
                              IN  \E m \in 1..Len(sub) : sub[m].url = l.pq[k].url
            /\ site.domain \in FetchedEarlier(l)
                  => /\ FetchedBfs(l) = {}
                     /\ l.bfs_visited = 0
                     /\ \A k \in 1..Len(l.pq) : l.pq[k].depth = 0

\* Phase 4 has run after the domain root was requested in phase 3: its one
\* heap entry was popped and the loop ended without a request.
C27_Witness ==
    LET l == loc[1] IN
    /\ l.pc = "sort"
    /\ (\E i \in 1..Len(l.invoked) : l.invoked[i] = 4)
    /\ l.last_pop.k = 1
    /\ l.last_pop.pq[1].url = site.domain
    /\ site.domain \in FetchedEarlier(l)
    /\ l.bfs_visited = 0
    /\ Len(l.fetched) >= 2

(***************************************************************************)
(* Termination of crawl_for_forms.                                         *)
(***************************************************************************)
\* crawl_for_forms has returned its sorted list.
ListReturned(l) == l.pc \in {"done", "dl", "returned"}

\* C28: whatever the site, the call of crawl_for_forms eventually returns the
\* sorted candidate list.
C28_ListReturned == <>ListReturned(loc[1])

\* Where a program position lies in the order the code runs through.
Stage(pc) ==
    CASE pc = "idle" -> 0
      [] pc = "p1" -> 1
      [] pc = "g2" -> 2
      [] pc = "p2probe" -> 3
      [] pc \in {"p2seed", "p2crawl"} -> 4
      [] pc = "g3" -> 5
      [] pc \in {"p3", "p3sub"} -> 6
      [] pc = "g4" -> 7
      [] pc = "p4" -> 8
      [] pc = "sort" -> 9
      [] pc = "done" -> 10
      [] pc = "dl" -> 11
      [] pc \in {"returned", "raised"} -> 12

\* One iteration of a budgeted loop: a page taken from the budget, or the
\* budget left alone and the queue shorter.
Consumes(budget, queue, budget2, queue2) ==
    \/ budget2 = budget + 1
    \/ budget2 = budget /\ Len(queue2) < Len(queue)

\* An iteration of the seed sub-crawl or of the best-first crawl either takes
\* one page from its budget or leaves the budget alone and its queue shorter.
C28_LoopProgress ==
    [][\A s \in Sessions :
          /\ (loc[s].pc = "p2crawl" /\ loc'[s].pc = "p2crawl" /\ loc'[s] # loc[s])
                => Consumes(loc[s].seed_pages, loc[s].seed_queue,
                            loc'[s].seed_pages, loc'[s].seed_queue)
          /\ (loc[s].pc = "p4" /\ loc'[s].pc = "p4" /\ loc'[s] # loc[s])
                => Consumes(loc[s].bfs_visited, loc[s].pq,
                            loc'[s].bfs_visited, loc'[s].pq)]_vars

\* Step a -> b of a session moves on in the code: to a later stage, to the
\* next element of the list a for-loop walks, or through one iteration of a
\* budgeted loop.
MovesOn(a, b) ==
    \/ Stage(b.pc) > Stage(a.pc)
    \/ /\ Stage(b.pc) = Stage(a.pc)
       /\ CASE a.pc \in {"p1", "p2probe"} -> b.i = a.i + 1
            [] a.pc = "p2seed" -> b.pc = "p2crawl" /\ b.seed_i = a.seed_i
            [] a.pc = "p2crawl" ->
                 \/ b.pc = "p2seed" /\ b.seed_i = a.seed_i + 1
                 \/ /\ b.pc = "p2crawl" /\ b.seed_i = a.seed_i
                    /\ Consumes(a.seed_pages, a.seed_queue, b.seed_pages, b.seed_queue)
            [] a.pc = "p3" -> \/ b.pc = "p3" /\ b.i = a.i + 1
                              \/ b.pc = "p3sub" /\ b.i = a.i
            [] a.pc = "p3sub" -> \/ b.pc = "p3sub" /\ b.i = a.i /\ b.sub_i = a.sub_i + 1
                                 \/ b.pc = "p3" /\ b.i = a.i + 1
            [] a.pc = "p4" -> /\ b.pc = "p4"
                              /\ Consumes(a.bfs_visited, a.pq, b.bfs_visited, b.pq)
            [] a.pc = "dl" -> b.dl_i = a.dl_i + 1
            [] OTHER -> FALSE

\* Every step of the call moves on in the code, and the indices and budgets
\* it counts up are bounded: no run of the call goes on for ever.
C28_EveryStepMovesOn ==
    [][\A s \in Sessions :
          /\ loc'[s] # loc[s] => MovesOn(loc[s], loc'[s])
          /\ loc'[s].seed_pages <= SeedBudget
          /\ loc'[s].bfs_visited <= max_pages
          /\ loc'[s].i <= Max(Max(Len(loc'[s].sitemap_urls), Len(loc'[s].seed_urls)),
                              Len(loc'[s].google_urls)) + 1
          /\ loc'[s].seed_i <= Len(loc'[s].responding_seeds) + 1
          /\ loc'[s].sub_i <= Len(loc'[s].subpages) + 1
          /\ loc'[s].dl_i <= Len(loc'[s].download_candidates) + 1]_vars

(***************************************************************************)
(* The number of fetch_page calls of one crawl.                            *)
(***************************************************************************)
\* The calls of a phase for start pages (deep = FALSE: sitemap URLs, seed
\* probes, search results, the domain root) or for pages reached from them.
FetchCount(l, phase, deep) ==
    Cardinality({j \in 1..Len(l.fetched) :
                    /\ l.fetched[j].phase = phase
                    /\ (l.fetched[j].depth > 0) = deep})

C29_SeedBudgetUsed ==
    \E s \in Sessions : loc[s].pc = "p2crawl" /\ loc[s].seed_pages = SeedBudget

\* A search that returned the whole of its 10 results.
C29_ResultLimitUsed ==
    \E s \in Sessions : FetchCount(loc[s], 3, FALSE) = MaxResults

(***************************************************************************)
(* The budget of the two queue loops.                                      *)
(***************************************************************************)
\* The last fetch_page call of the session.
LastFetch(l) == l.fetched[Len(l.fetched)]

\* One loop iteration from a to b that popped entry e, leaving queue rest:
\* a seen or too deep entry costs nothing and changes nothing but the queue;
\* any other entry is marked seen and counted whether or not its page can be
\* read, and an unreadable page adds no candidate and no queue entry.
Iteration(a, b, e, toodeep, budget, budget2, rest, queue2) ==
    IF e.url \in a.seen_urls \/ toodeep
      THEN /\ budget2 = budget
           /\ b.fetched = a.fetched
           /\ b.seen_urls = a.seen_urls
           /\ b.candidates = a.candidates
           /\ queue2 = rest
           /\ b.pc = a.pc
    ELSE /\ budget2 = budget + 1
         /\ b.seen_urls = a.seen_urls \cup {e.url}
         /\ Len(b.fetched) = Len(a.fetched) + 1
         /\ LastFetch(b).url = e.url
         /\ ~LastFetch(b).ok => /\ queue2 = rest
                                /\ b.candidates = a.candidates
                                /\ b.pc = a.pc

\* C30: an iteration of the seed sub-crawl or of the best-first crawl marks
\* the popped URL as seen and counts it against the budget before fetching
\* it: a page that cannot be read still costs one unit and the loop goes on
\* with the next entry; an entry already seen or too deep costs nothing; and
\* no URL is fetched twice in a session.
C30_BudgetBeforeFetch ==
    [][\A s \in Sessions :
          LET a == loc[s]
              b == loc'[s]
          IN  /\ (a.pc = "p2crawl" /\ a.seed_queue # <<>> /\ a.seed_pages < SeedBudget
                    /\ b # a)
                    => Iteration(a, b, Head(a.seed_queue),
                                 Head(a.seed_queue).depth > SeedDepth,
                                 a.seed_pages, b.seed_pages,
                                 Tail(a.seed_queue), b.seed_queue)
              /\ (a.pc = "p4" /\ a.pq # <<>> /\ a.bfs_visited < max_pages /\ b # a)
                    => Iteration(a, b, a.pq[HeapMin(a.pq)],
                                 a.pq[HeapMin(a.pq)].depth > BfsDepth,
                                 a.bfs_visited, b.bfs_visited,
                                 RemoveAt(a.pq, HeapMin(a.pq)), b.pq)
              /\ \A i, j \in 1..Len(b.fetched) :
                    b.fetched[i].url = b.fetched[j].url => i = j]_vars

\* The best-first crawl has counted a page that could not be read, fetched
\* another page after it, and then popped and skipped a second heap entry for
\* the unreadable page.
C30_Witness ==
    LET l == loc[1]
        f == l.fetched
    IN  /\ l.pc = "p4"
        /\ l.last_pop.k > 0
        /\ l.bfs_visited = FetchCount(l, 4, FALSE) + FetchCount(l, 4, TRUE)
        /\ \E j \in 1..(Len(f) - 1) :
              /\ f[j].phase = 4
              /\ ~f[j].ok
              /\ f[j + 1].phase = 4
              /\ l.last_pop.pq[l.last_pop.k].url = f[j].url

\* The same in the seed sub-crawl.
C30_SeedWitness ==
    LET l == loc[1]
        f == l.fetched
    IN  /\ l.pc = "p2crawl"
        /\ l.seed_pop.k > 0
        /\ \E j \in 1..(Len(f) - 1) :
              /\ f[j].phase = 2 /\ f[j].depth > 0
              /\ ~f[j].ok
              /\ f[j + 1].phase = 2
              /\ l.seed_pop.q[l.seed_pop.k].url = f[j].url

(***************************************************************************)
(* Properties of parse_sitemap.                                            *)
(***************************************************************************)
\* The <loc> texts of the first n children that could be read, in order.
RECURSIVE ListedIn(_, _)
ListedIn(subs, n) ==
    IF n = 0 THEN <<>>
    ELSE ListedIn(subs, n - 1) \o (IF subs[n].ok THEN subs[n].locs ELSE <<>>)

\* C25: parse_sitemap returns, in the order of the listing, the URLs with a
\* form path segment that the root urlset lists or, for an index, that the
\* readable ones of its first five children list; [] when the root fails.
C25_SitemapResult ==
    \A s \in Sessions :
        LET l == loc[s]
            sm == site.sitemap
            listed == IF sm.kind = "fail" THEN <<>>
                      ELSE IF sm.subs # <<>>
                        THEN ListedIn(sm.subs, IF Len(sm.subs) < 5 THEN Len(sm.subs) ELSE 5)
                      ELSE sm.locs
            HasSegment(u) == \E k \in 1..Len(FORM_PATH_SEGMENTS) :
                                 IsSub(FORM_PATH_SEGMENTS[k], Lower(Tail(u)))
        IN  l.pc # "idle" =>
                /\ l.pc # "raised"
                /\ l.sitemap_urls = SelectSeq(listed, HasSegment)

(***************************************************************************)
(* Properties of the page cache.                                           *)
(***************************************************************************)
\* C14: once crawl_for_forms has returned, no page the call cached remains
\* in the page cache.
C14_CacheDiscarded ==
    \A s \in Sessions :
        loc[s].pc \in {"done", "dl", "returned"} =>
            \A k \in 1..Len(loc[s].fetched) :
                loc[s].fetched[k].url \notin DOMAIN page_cache

(***************************************************************************)
(* Properties of the --discover loop.                                      *)
(***************************************************************************)
\* C15: a call that found no candidates has returned with the flag "no
\* candidates found", no municipality's failure ends the loop, and when the
\* loop is over every municipality with a domain has its results.
C15_BatchIsolation ==
    /\ \A s \in Sessions :
          (loc[s].pc = "returned" /\ loc[s].candidates = <<>>) =>
              loc[s].flagged = <<"no candidates found">>
    /\ ~batch.aborted
    /\ \A k \in 1..Len(batch.registry) :
          (batch.registry[k].domain # <<>> /\ (batch.i > k \/ batch.aborted)) =>
              \E r \in 1..Len(batch.results) : batch.results[r].key = k

====
